---- MODULE Spec2Model ----
(***************************************************************************)
(* Playback-session controller of jtui: the bubbletea event loop           *)
(* (model.Update), the playItem command with its tracking and progress      *)
(* goroutines, the mpv IPC status poll and the global list of spawned mpv   *)
(* processes.                                                              *)
(*                                                                         *)
(* Granularity: the event loop handles one message per step; every          *)
(* goroutine advances one statement group per step.  Statements that touch  *)
(* the unsynchronised global runningMpvProcesses are atomic steps of their  *)
(* own, so every statement-level interleaving of the goroutines is covered. *)
(***************************************************************************)
EXTENDS Integers, Sequences, FiniteSets, Bags, TLC

\* ---------------------------------------------------------------- bounds
\* play commands in one run of the tracking specification
MaxSessions == 2
\* play commands in one run of the event-loop specification
MaxLoopPlays == 1
\* command results in flight to the event loop
MaxInbox == 1
\* pending status-poll ticks plus poll results in flight
MaxPolls == 1

Sessions == 1..MaxSessions

\* media items a list can hold
Items == {"A", "B"}
\* what the cursor rests on: nothing (empty list), a virtual folder or a media
\* item
CursorKinds == {"none", "vfolder"} \cup Items
\* answers mpv can give for time-pos and duration (seconds); 0 is also what a
\* failed query yields
Positions == {0, 180}
Durations == {0, 200}
\* answers tried on checkMpvStatus and on the completion handling alone
ProbePositions == {0, 50, 120, 179, 180, 190}
ProbeDurations == {0, 100, 200}

\* ------------------------------------------------------- program constants
\* checkMpvStatus: maxRetries := 3
MaxRetries == 3
\* playItem: completionPercentage >= 90.0
CompletionThreshold == 90

\* ---------------------------------------------------------------- messages
\* one record shape for every tea.Msg: arg carries an item kind or an error text,
\* key the key of a tea.KeyMsg
Msg(t) == [type |-> t, position |-> 0, duration |-> 0, isPlaying |-> FALSE, arg |-> "nil", key |-> "nil"]
ProgressMsg(p, d, pl) == [Msg("playbackProgressMsg") EXCEPT !.position = p, !.duration = d, !.isPlaying = pl]
ErrMsg(e) == [Msg("errMsg") EXCEPT !.arg = e]
SuccessMsg == Msg("successMsg")
\* landing: for a navigation key, what m.items holds at the new cursor index
KeyMsg(k, landing) == [Msg("KeyMsg") EXCEPT !.key = k, !.arg = landing]
ItemDetailsLoadedMsg(i) == [Msg("itemDetailsLoadedMsg") EXCEPT !.arg = i]
ItemsLoadedMsg(first) == [Msg("itemsLoadedMsg") EXCEPT !.arg = first]
LibrariesLoadedMsg == Msg("librariesLoadedMsg")
WatchStatusUpdatedMsg == Msg("watchStatusUpdatedMsg")
VideoCompletedMsg == Msg("videoCompletedMsg")

\* the four player commands, the message each answers with and the error a
\* failed connection gives
IpcCommands == {"stopPlayback", "togglePause", "cycleSub", "cycleAudio"}
IpcAck(c) ==
    CASE c = "stopPlayback" -> Msg("stopPlaybackMsg")
      [] c = "togglePause" -> Msg("togglePauseMsg")
      [] c = "cycleSub" -> Msg("cycleSubtitleMsg")
      [] c = "cycleAudio" -> Msg("cycleAudioMsg")
\* An error is modelled by where it comes from, not by its text: "ipc" is the
\* failed dial of a player command ("failed to stop playback", "failed to
\* toggle pause", "failed to cycle subtitles", "failed to cycle audio"),
\* "storage" a failed download, removal or offline lookup, "remote" a failed
\* call of the server.
IpcError(c) == "ipc"

Keys == {"enter", "p", "s", "u", "a", "d", "x", "w", "j"}

\* ------------------------------------------------------------ mpv status
\* what one attempt of checkMpvStatus meets: the dial fails, the read (or the
\* unmarshal) fails, or the pause property is answered with false, true or a
\* value that is no bool
AttemptOutcomes == {"dialerr", "readerr", "false", "true", "nonbool"}

VideoIsPlaying(isPaused, pauseOk, position, duration) ==
    (~isPaused /\ pauseOk) \/ (position > 0 \/ duration > 0)

StatusZero == [position |-> 0, duration |-> 0, isPlaying |-> FALSE]

\* checkMpvStatus from attempt number retry on; attempts[i] is what attempt i
\* meets, position and duration are what getMpvPositionWithRetry and
\* getMpvDurationWithRetry return (0 when they fail)
RECURSIVE CheckMpvStatusFrom(_, _, _, _)
CheckMpvStatusFrom(retry, attempts, position, duration) ==
    IF retry >= MaxRetries THEN StatusZero
    ELSE LET o == attempts[retry + 1] IN
         IF o \in {"dialerr", "readerr"}
         THEN IF retry < MaxRetries - 1
              THEN CheckMpvStatusFrom(retry + 1, attempts, position, duration)
              ELSE StatusZero
         ELSE LET isPaused == (o = "true")
                  pauseOk == (o \in {"false", "true"})
              IN [position |-> position, duration |-> duration,
                  isPlaying |-> VideoIsPlaying(isPaused, pauseOk, position, duration)]

checkMpvStatus(attempts, position, duration) ==
    CheckMpvStatusFrom(0, attempts, position, duration)

\* ------------------------------------------------------------ completion
\* the comparison as a strict one
IsCompletedStrict(finalPosition, finalDuration) ==
    finalPosition * 100 > CompletionThreshold * finalDuration

\* (finalPosition / finalDuration) * 100 >= 90.0, for finalDuration > 0
IsCompleted(finalPosition, finalDuration) ==
    finalPosition * 100 >= CompletionThreshold * finalDuration

\* what the tracking goroutine does after cmd.Run() returned, given the answers
\* of its final queries: which remote calls it makes and whether it sends
\* videoCompletedMsg (globalProgram is set before the program runs)
CompletionEffects(local, authenticated, finalPosition, finalDuration) ==
    LET posOk == finalPosition > 0
        completed == posOk /\ finalDuration > 0 /\ IsCompleted(finalPosition, finalDuration)
    IN [reportProgress |-> posOk /\ ~local,
        markWatched |-> completed /\ (~local \/ authenticated),
        reportStop |-> completed /\ ~local,
        videoCompleted |-> completed]

\* ------------------------------------------------------------ model.Update
\* the tea.Cmd Update returns: its name and, for loadItemDetails and
\* toggleWatchedStatus, the item or details it was built with
Cmd(name, arg) == [name |-> name, arg |-> arg]
NoCmd == Cmd("none", "nil")

ClearPlayback(mm) ==
    [mm EXCEPT !.isVideoPlaying = FALSE, !.currentPlayingItem = "nil",
               !.currentPlayPosition = 0, !.currentPlayDuration = 0]

\* case playbackProgressMsg
UpdateProgress(mm, msg) ==
    LET wasPlaying == mm.isVideoPlaying
        m1 == [mm EXCEPT !.currentPlayPosition = msg.position,
                         !.currentPlayDuration = msg.duration,
                         !.isVideoPlaying = msg.isPlaying]
        m2 == IF msg.isPlaying /\ m1.currentPlayingItem = "nil" /\ m1.currentDetails # "nil"
              THEN [m1 EXCEPT !.currentPlayingItem = m1.currentDetails]
              ELSE m1
        m3 == IF ~msg.isPlaying /\ wasPlaying
              THEN [m2 EXCEPT !.currentPlayingItem = "nil",
                              !.currentPlayPosition = 0, !.currentPlayDuration = 0]
              ELSE m2
        m4 == IF m3.currentPlayingItem # "nil" /\ ~msg.isPlaying
                 /\ msg.position = 0 /\ msg.duration = 0
              THEN ClearPlayback(m3)
              ELSE m3
    IN [m |-> m4,
        cmd |-> IF msg.isPlaying \/ wasPlaying \/ m4.currentPlayingItem # "nil"
                THEN Cmd("progress", "nil") ELSE NoCmd]

\* the play branch of key p/space and of selectItem: playItem batched with
\* createDelayedProgressUpdateCmd
StartPlay(mm) ==
    [m |-> [mm EXCEPT !.currentPlayingItem = mm.currentDetails], cmd |-> Cmd("play", "nil")]

\* selectItem, called for key enter on a non-empty list
SelectItem(mm) ==
    IF mm.cursor = "vfolder"
    THEN [m |-> mm, cmd |-> Cmd("loadItems", "nil")]
    ELSE StartPlay(mm)

\* case tea.KeyMsg outside the search view
UpdateKey(mm, msg) ==
    LET k == msg.key
        media == mm.cursor \in Items
        ipc(c) == IF mm.isVideoPlaying THEN [m |-> mm, cmd |-> Cmd(c, "nil")]
                  ELSE [m |-> mm, cmd |-> NoCmd]
    IN CASE k = "enter" ->
              IF mm.cursor # "none" THEN SelectItem(mm) ELSE [m |-> mm, cmd |-> NoCmd]
         [] k = "p" ->
              IF mm.isVideoPlaying THEN [m |-> mm, cmd |-> Cmd("togglePause", "nil")]
              ELSE IF media THEN StartPlay(mm)
              ELSE [m |-> mm, cmd |-> NoCmd]
         [] k = "j" ->
              IF mm.cursor = "none" THEN [m |-> mm, cmd |-> NoCmd]
              ELSE IF msg.arg = "vfolder"
              THEN [m |-> [mm EXCEPT !.cursor = msg.arg, !.currentDetails = "nil"], cmd |-> NoCmd]
              ELSE [m |-> [mm EXCEPT !.cursor = msg.arg], cmd |-> Cmd("loadItemDetails", msg.arg)]
         [] k = "w" ->
              IF media THEN [m |-> mm, cmd |-> Cmd("toggleWatchedStatus", mm.currentDetails)]
              ELSE [m |-> mm, cmd |-> NoCmd]
         [] k = "d" ->
              IF media /\ mm.currentDetails # "nil"
              THEN [m |-> mm, cmd |-> Cmd("downloadVideo", "nil")]
              ELSE [m |-> mm, cmd |-> NoCmd]
         [] k = "x" ->
              IF media /\ mm.currentDetails # "nil"
              THEN [m |-> mm, cmd |-> Cmd("removeDownload", "nil")]
              ELSE [m |-> mm, cmd |-> NoCmd]
         [] k = "s" -> ipc("stopPlayback")
         [] k = "u" -> ipc("cycleSub")
         [] k = "a" -> ipc("cycleAudio")
         [] OTHER -> [m |-> mm, cmd |-> NoCmd]

\* the m.err guard at the head of Update: only q and ctrl+c are looked at
UpdateErrGuard(mm, msg) == [m |-> mm, cmd |-> NoCmd]

\* the switch on the message type
UpdateSwitch(mm, msg) ==
    LET t == msg.type
    IN CASE t = "librariesLoadedMsg" ->
              [m |-> [mm EXCEPT !.cursor = "vfolder", !.currentDetails = "nil"], cmd |-> NoCmd]
         [] t = "itemsLoadedMsg" ->
              [m |-> [mm EXCEPT !.cursor = msg.arg],
               cmd |-> IF msg.arg # "none" THEN Cmd("loadItemDetails", msg.arg) ELSE NoCmd]
         [] t = "itemDetailsLoadedMsg" ->
              [m |-> [mm EXCEPT !.currentDetails = msg.arg], cmd |-> NoCmd]
         [] t = "errMsg" ->
              [m |-> [mm EXCEPT !.err = msg.arg], cmd |-> NoCmd]
         [] t = "successMsg" ->
              [m |-> [mm EXCEPT !.err = "nil"], cmd |-> NoCmd]
         [] t = "playbackProgressMsg" -> UpdateProgress(mm, msg)
         [] t = "stopPlaybackMsg" -> [m |-> ClearPlayback(mm), cmd |-> NoCmd]
         [] t = "KeyMsg" -> UpdateKey(mm, msg)
         [] OTHER -> [m |-> mm, cmd |-> NoCmd]

Update(mm, msg) ==
    IF mm.err # "nil" THEN UpdateErrGuard(mm, msg) ELSE UpdateSwitch(mm, msg)

\* initialModelWithClient
InitialModel ==
    [err |-> "nil", cursor |-> "none", currentDetails |-> "nil",
     currentPlayingItem |-> "nil", currentPlayPosition |-> 0, currentPlayDuration |-> 0,
     isVideoPlaying |-> FALSE]

\* ----------------------------------------------------------- path resolver
\* A string is a sequence of one-character strings (ASCII: a character is a
\* byte).
Forbidden == {"<", ">", ":", "\"", "/", "\\", "|", "?", "*"}
WhiteSpace == {" ", "\t", "\n"}
\* sanitize: if len(sanitized) > 100
SanitizeLimit == 100

\* regexp [<>:"/\\|?*] replaced by "_"
ReplaceInvalid(name) ==
    [i \in 1..Len(name) |-> IF name[i] \in Forbidden THEN "_" ELSE name[i]]
\* sanitized[:100]
\* the names without the cut at 100
TruncateNever(name) == name

Truncate(name) ==
    IF Len(name) > SanitizeLimit THEN SubSeq(name, 1, SanitizeLimit) ELSE name
\* strings.TrimSpace
TrimSpace(name) ==
    LET kept == {i \in 1..Len(name) : name[i] \notin WhiteSpace}
        first == CHOOSE i \in kept : \A j \in kept : i <= j
        last == CHOOSE i \in kept : \A j \in kept : i >= j
    IN IF kept = {} THEN <<>> ELSE SubSeq(name, first, last)
\* the sanitize closure of BuildVideoPath
sanitize(name) == TrimSpace(Truncate(ReplaceInvalid(name)))

\* fmt "%d" of a number >= 0
RECURSIVE Decimal(_)
Decimal(n) ==
    LET digits == <<"0", "1", "2", "3", "4", "5", "6", "7", "8", "9">>
    IN IF n < 10 THEN <<digits[n + 1]>>
       ELSE Decimal(n \div 10) \o <<digits[(n % 10) + 1]>>
\* fmt "%02d" of a number >= 0
Decimal02(n) == IF n < 10 THEN <<"0">> \o Decimal(n) ELSE Decimal(n)

MkvText == <<".", "m", "k", "v">>
TmpText == <<".", "t", "m", "p">>

\* the episode and movie file names: "S%02dE%02d - %s", "%s (%d)"
EpisodeFileName(season, episode, title) ==
    <<"S">> \o Decimal02(season) \o <<"E">> \o Decimal02(episode) \o <<" ", "-", " ">> \o title
MovieFileName(title, year) == title \o <<" ", "(">> \o Decimal(year) \o <<")">>

\* an item's metadata, as BuildVideoPath reads it
Item(type, seriesName, name, season, episode, year) ==
    [type |-> type, seriesName |-> seriesName, name |-> name,
     season |-> season, episode |-> episode, year |-> year]

\* BuildVideoPath: pathParts
\* the path parts with the season directory only for a numbered episode
PathPartsNumberedOnly(item) ==
    IF item.type = "Episode" /\ item.seriesName # <<>>
    THEN IF item.season > 0 /\ item.episode > 0
         THEN <<sanitize(item.seriesName), <<"S", "e", "a", "s", "o", "n", " ">> \o Decimal02(item.season),
                EpisodeFileName(item.season, item.episode, sanitize(item.name)) \o MkvText>>
         ELSE <<sanitize(item.seriesName), sanitize(item.name) \o MkvText>>
    ELSE IF item.type = "Movie"
    THEN <<<<"M", "o", "v", "i", "e", "s">>,
           (IF item.year > 0 THEN MovieFileName(sanitize(item.name), item.year)
            ELSE sanitize(item.name)) \o MkvText>>
    ELSE <<<<"O", "t", "h", "e", "r">>, sanitize(item.name) \o MkvText>>

PathParts(item) ==
    IF item.type = "Episode" /\ item.seriesName # <<>>
    THEN <<sanitize(item.seriesName)>>
         \o (IF item.season > 0 THEN <<<<"S", "e", "a", "s", "o", "n", " ">> \o Decimal02(item.season)>> ELSE <<>>)
         \o <<(IF item.season > 0 /\ item.episode > 0
               THEN EpisodeFileName(item.season, item.episode, sanitize(item.name))
               ELSE sanitize(item.name)) \o MkvText>>
    ELSE IF item.type = "Movie"
    THEN <<<<"M", "o", "v", "i", "e", "s">>,
           (IF item.year > 0 THEN MovieFileName(sanitize(item.name), item.year)
            ELSE sanitize(item.name)) \o MkvText>>
    ELSE <<<<"O", "t", "h", "e", "r">>, sanitize(item.name) \o MkvText>>

\* filepath.Clean on path elements: an empty element and "." are dropped,
\* ".." takes the element before it away (and is dropped at the root of a
\* rooted path, kept at the start of a relative one)
RECURSIVE Clean(_, _, _)
Clean(acc, parts, rooted) ==
    IF parts = <<>> THEN acc
    ELSE LET seg == Head(parts)
             rest == Tail(parts)
         IN IF seg = <<>> \/ seg = <<".">> THEN Clean(acc, rest, rooted)
            ELSE IF seg # <<".", ".">> THEN Clean(Append(acc, seg), rest, rooted)
            ELSE IF acc # <<>> /\ acc[Len(acc)] # <<".", ".">>
                 THEN Clean(SubSeq(acc, 1, Len(acc) - 1), rest, rooted)
            ELSE IF rooted THEN Clean(acc, rest, rooted)
            ELSE Clean(Append(acc, seg), rest, rooted)

\* filepath.Join(pathParts...)
JoinParts(parts) == Clean(<<>>, parts, FALSE)

\* BuildVideoPath: the path below the downloads directory
RelativePath(item) == JoinParts(PathParts(item))

\* ------------------------------------------------------------------ state
VARIABLES
    m,                    \* the bubbletea model (event-loop state)
    stopped,              \* history: a stopPlaybackMsg was handled and no play command since
    inbox,                \* bag of messages sent to the event loop, not yet handled
    pollTimers,           \* pending tea.Tick status polls
    pc,                   \* per play command: where its playItem cmd / tracking goroutine is
    isLocal,              \* per play command: isLocal of playItem
    proc,                 \* per play command: its mpv process
    rpc,                  \* per play command: where its 5 s progress goroutine is
    runningMpvProcesses,  \* the global tracking list
    socketOwner,          \* the mpv process answering on /tmp/jtui-mpvsocket, 0 if none
    mode,                 \* client mode, fixed at construction
    serverUp,             \* whether remote calls succeed at the moment
    statusProbe,          \* input and result of one checkMpvStatus call
    completionProbe,      \* input and result of one completion handling
    files,                \* the regular files of the filesystem: path -> chunks written
    dirs,                 \* the directories of the filesystem, by path
    dl,                   \* the DownloadVideo call in progress
    requests,             \* the remote requests issued so far, by operation
    pathProbe,            \* input and result of one BuildVideoPath call
    connectProbe,         \* input and result of one ConnectFromConfig call
    called                \* the last storage call made beside the download

uiVars == <<m, stopped, inbox, pollTimers>>
sessVars == <<pc, isLocal, proc, rpc, runningMpvProcesses, socketOwner>>
envVars == <<mode, serverUp>>
probeVars == <<statusProbe, completionProbe>>
storeVars == <<files, dirs, dl, requests, pathProbe, connectProbe, called>>
vars == <<uiVars, sessVars, envVars, probeVars, storeVars>>

\* paths are sequences of segments, the filesystem root is the empty path;
\* xdg.ConfigHome and GetDownloadsDir
ConfigHome == <<<<".", "c", "o", "n", "f", "i", "g">>>>
DownloadsDir ==
    ConfigHome \o <<<<"j", "t", "u", "i">>, <<"d", "o", "w", "n", "l", "o", "a", "d", "s">>>>
\* filepath.Dir
Dir(path) == IF path = <<>> THEN <<>> ELSE SubSeq(path, 1, Len(path) - 1)

NoItem == Item("Video", <<>>, <<>>, 0, 0, 0)
\* the values at rest: no regular file, no download running, no operation
\* called and no request sent, nothing probed, no storage call made (n tells
\* one call from the next)
Idle ==
    [files |-> [path \in {} |-> 0],
     dl |-> [pc |-> "idle", item |-> NoItem, result |-> "none", progress |-> <<>>],
     requests |-> [ops |-> {}, sent |-> {}],
     pathProbe |-> [item |-> NoItem, done |-> FALSE, out |-> <<>>,
                    scanned |-> FALSE, parsed |-> <<>>, id |-> <<>>],
     connectProbe |-> [urlSet |-> TRUE, online |-> "ok", scanFails |-> FALSE, done |-> FALSE,
                       out |-> [client |-> "none", err |-> "none"]],
     called |-> [op |-> "none", item |-> NoItem, err |-> "none", n |-> 0]]

\* no download, no request, nothing probed; the filesystem before the first
\* GetDownloadsDir
StoreIdle ==
    /\ files = Idle.files
    /\ dirs = {<<>>, ConfigHome}
    /\ dl = Idle.dl
    /\ requests = Idle.requests
    /\ pathProbe = Idle.pathProbe
    /\ connectProbe = Idle.connectProbe
    /\ called = Idle.called

NoMsg == Msg("nil")
IsProgress(x) == x.type = "playbackProgressMsg"
\* pending poll ticks and poll results in flight, in the bag b
PollsIn(b) == BagCardinality([x \in {y \in BagToSet(b) : IsProgress(y)} |-> b[x]])
PollsTotal(b) == pollTimers + PollsIn(b)
\* command results in flight
ResultsIn(b) == BagCardinality(b) - PollsIn(b)

\* client.IsOfflineMode / client.IsAuthenticated
IsOfflineMode == mode = "offline"
IsAuthenticated == mode = "online"
\* a remote call succeeds
RemoteOk == mode = "online" /\ serverUp

\* net.Dial("unix", "/tmp/jtui-mpvsocket") succeeds
Reachable == socketOwner # 0
\* what a query of mpv for a number can return
Answers(values) == IF Reachable THEN values ELSE {0}

\* close(done) has happened
DoneClosed(s) == pc[s] \in {"final", "done"}
\* between the play command and the exit of its process
Launching(s) == pc[s] \in {"cleanup", "resolve", "start", "run"}
Alive(s) == proc[s] = "alive"

NextSession == CHOOSE s \in Sessions : pc[s] = "idle" /\ \A t \in Sessions : t < s => pc[t] # "idle"

ProbeIdle ==
    /\ statusProbe = [attempts |-> [i \in 1..MaxRetries |-> "dialerr"], position |-> 0,
                      duration |-> 0, done |-> FALSE, out |-> StatusZero]
    /\ completionProbe = [local |-> FALSE, authenticated |-> FALSE, finalPosition |-> 0,
                          finalDuration |-> 0, done |-> FALSE,
                          out |-> CompletionEffects(FALSE, FALSE, 0, 0)]

SessionsIdle ==
    /\ pc = [s \in Sessions |-> "idle"]
    /\ isLocal = [s \in Sessions |-> FALSE]
    /\ proc = [s \in Sessions |-> "none"]
    /\ rpc = [s \in Sessions |-> "off"]
    /\ runningMpvProcesses = <<>>
    /\ socketOwner = 0

\* MenuWithClient with a constructed client; model.Init has batched
\* loadLibraries with createProgressUpdateCmd
InitProgram ==
    /\ m = InitialModel
    /\ stopped = FALSE
    /\ mode \in {"online", "offline"}
    /\ serverUp = (mode = "online")
    /\ inbox \in {SetToBag({LibrariesLoadedMsg})}
                   \cup (IF mode = "online" THEN {SetToBag({ErrMsg("remote")})} ELSE {})
    /\ pollTimers = 1
    /\ SessionsIdle

Init ==
    /\ InitProgram
    /\ ProbeIdle
    /\ StoreIdle

\* ------------------------------------------------------- event loop steps
\* Messages whose case in Update changes nothing of the modelled state
\* (togglePauseMsg, cycleSubtitleMsg, cycleAudioMsg, watchStatusUpdatedMsg,
\* videoCompletedMsg, successMsg) are not put in flight: handling them is a
\* stuttering step.
Silent == {Msg("togglePauseMsg"), Msg("cycleSubtitleMsg"), Msg("cycleAudioMsg"),
           WatchStatusUpdatedMsg, VideoCompletedMsg, SuccessMsg}
Send(b, msg) == IF msg \in Silent THEN b ELSE b (+) SetToBag({msg})

\* the player commands as ones that take a failed dial for done
CmdResultsAbsorbing(cmd) ==
    CASE cmd.name \in IpcCommands -> {IpcAck(cmd.name)}
      [] cmd.name = "downloadVideo" -> {SuccessMsg, ErrMsg("storage")}
      [] cmd.name = "removeDownload" -> {SuccessMsg, ErrMsg("storage")}
      [] cmd.name = "toggleWatchedStatus" ->
            IF cmd.arg = "nil" THEN {ErrMsg("storage")}
            ELSE IF RemoteOk THEN {WatchStatusUpdatedMsg} ELSE {ErrMsg("remote")}
      [] cmd.name = "loadItems" ->
            IF IsOfflineMode \/ RemoteOk
            THEN {ItemsLoadedMsg(f) : f \in CursorKinds \ {"vfolder"}}
            ELSE {ErrMsg("remote")}
      [] cmd.name = "loadItemDetails" ->
            IF IsOfflineMode \/ RemoteOk THEN {ItemDetailsLoadedMsg(cmd.arg)}
            ELSE {ErrMsg("remote")}

\* the message a command's goroutine sends back
CmdResults(cmd) ==
    CASE cmd.name \in IpcCommands ->
            \* stopMpv, togglePauseMpv, cycleSubtitleTrack, cycleAudioTrack: the
            \* dial error is the only error
            {IF Reachable THEN IpcAck(cmd.name) ELSE ErrMsg(IpcError(cmd.name))}
      [] cmd.name = "downloadVideo" -> {SuccessMsg, ErrMsg("storage")}
      [] cmd.name = "removeDownload" -> {SuccessMsg, ErrMsg("storage")}
      [] cmd.name = "toggleWatchedStatus" ->
            IF cmd.arg = "nil" THEN {ErrMsg("storage")}
            ELSE IF RemoteOk THEN {WatchStatusUpdatedMsg} ELSE {ErrMsg("remote")}
      [] cmd.name = "loadItems" ->
            IF IsOfflineMode \/ RemoteOk
            THEN {ItemsLoadedMsg(f) : f \in CursorKinds \ {"vfolder"}}
            ELSE {ErrMsg("remote")}
      [] cmd.name = "loadItemDetails" ->
            IF IsOfflineMode \/ RemoteOk THEN {ItemDetailsLoadedMsg(cmd.arg)}
            ELSE {ErrMsg("remote")}

\* the bounds of the model, as guards on what a command may start
CmdAllowed(cmd, base) ==
    /\ cmd.name = "play" => /\ \E s \in Sessions : pc[s] = "idle"
                            /\ Cardinality({s \in Sessions : pc[s] # "idle"}) < MaxLoopPlays
                            /\ PollsTotal(base) < MaxPolls
    /\ cmd.name = "progress" => PollsTotal(base) < MaxPolls

\* a playItem cmd starts running
StartPlayItem == pc' = [pc EXCEPT ![NextSession] = "cleanup"]

\* Update handles msg; base is the inbox without it.  The returned command is
\* started: a poll tick is armed, a playItem cmd begins, any other command runs
\* and sends its result.
Dispatch(msg, base) ==
    LET r == Update(m, msg) IN
    /\ CmdAllowed(r.cmd, base)
    /\ m' = r.m
    /\ stopped' = IF msg.type = "stopPlaybackMsg" /\ m.err = "nil" THEN TRUE
                  ELSE IF r.cmd.name = "play" THEN FALSE
                  ELSE stopped
    /\ pollTimers' = IF r.cmd.name \in {"progress", "play"} THEN pollTimers + 1 ELSE pollTimers
    /\ IF r.cmd.name = "play" THEN StartPlayItem ELSE pc' = pc
    /\ IF r.cmd.name \in {"none", "progress", "play"}
       THEN inbox' = base
       ELSE \E result \in CmdResults(r.cmd) : inbox' = Send(base, result)
    /\ UNCHANGED <<isLocal, proc, rpc, runningMpvProcesses, socketOwner, envVars, probeVars, storeVars>>

\* the user presses a key
KeyPress ==
    \E k \in Keys :
      \E landing \in (IF k = "j" THEN CursorKinds \ {"none"} ELSE {"nil"}) :
        /\ ResultsIn(inbox) < MaxInbox
        /\ Dispatch(KeyMsg(k, landing), inbox)

\* the event loop takes a message sent by a goroutine
Deliver ==
    \E msg \in BagToSet(inbox) : Dispatch(msg, inbox (-) SetToBag({msg}))

\* a poll tick fires and checkMpvStatus runs (createProgressUpdateCmd,
\* createDelayedProgressUpdateCmd)
PollFire ==
    /\ pollTimers > 0
    /\ pollTimers' = pollTimers - 1
    /\ \E o \in (IF Reachable THEN AttemptOutcomes \ {"dialerr"} ELSE {"dialerr"}),
          position \in Answers(Positions), duration \in Answers(Durations) :
         LET st == checkMpvStatus([i \in 1..MaxRetries |-> o], position, duration)
         IN inbox' = inbox (+) SetToBag({ProgressMsg(st.position, st.duration, st.isPlaying)})
    /\ UNCHANGED <<m, stopped, sessVars, envVars, probeVars, storeVars>>

\* ------------------------------------------------------------ playItem
\* the event loop starts a playItem cmd (keys enter, p, space, r); the event
\* loop's own state is left out of this step
PlayItemCmd ==
    /\ \E s \in Sessions : pc[s] = "idle"
    /\ StartPlayItem
    /\ UNCHANGED <<uiVars, isLocal, proc, rpc, runningMpvProcesses, socketOwner, envVars, probeVars, storeVars>>

\* CleanupMpvProcesses: every tracked command with a started process is killed
Killed == [s \in Sessions |->
             IF proc[s] = "alive" /\ \E i \in 1..Len(runningMpvProcesses) : runningMpvProcesses[i] = s
             THEN "exited" ELSE proc[s]]

\* playItem: if len(runningMpvProcesses) > 0 { CleanupMpvProcesses() }
PlayCleanup(s) ==
    /\ pc[s] = "cleanup"
    /\ pc' = [pc EXCEPT ![s] = "resolve"]
    /\ IF Len(runningMpvProcesses) > 0
       THEN /\ proc' = Killed
            /\ runningMpvProcesses' = <<>>
            /\ socketOwner' = 0
       ELSE UNCHANGED <<proc, runningMpvProcesses, socketOwner>>
    /\ UNCHANGED <<uiVars, isLocal, rpc, envVars, probeVars, storeVars>>

\* playItem: the target is resolved, the command is built and appended to the
\* tracking list, the tracking goroutine is started
PlayLaunch(s) ==
    /\ pc[s] = "resolve"
    /\ \E local \in (IF IsOfflineMode THEN {TRUE} ELSE IF serverUp THEN BOOLEAN ELSE {FALSE}) :
         isLocal' = [isLocal EXCEPT ![s] = local]
    /\ runningMpvProcesses' = Append(runningMpvProcesses, s)
    /\ pc' = [pc EXCEPT ![s] = "start"]
    /\ UNCHANGED <<uiVars, proc, rpc, socketOwner, envVars, probeVars, storeVars>>

\* playItem: offline content that GetOfflineItemByID does not find
PlayFail(s) ==
    /\ pc[s] = "resolve"
    /\ IsOfflineMode
    /\ ResultsIn(inbox) < MaxInbox
    /\ inbox' = Send(inbox, ErrMsg("storage"))
    /\ pc' = [pc EXCEPT ![s] = "failed"]
    /\ UNCHANGED <<m, stopped, pollTimers, isLocal, proc, rpc, runningMpvProcesses,
                   socketOwner, envVars, probeVars, storeVars>>

\* the tracking goroutine as one that gives up when ReportStart fails
ReportStartStepAborting(s, ok) ==
    IF isLocal[s] \/ ok
    THEN /\ pc' = [pc EXCEPT ![s] = "run"]
         /\ rpc' = IF isLocal[s] THEN rpc ELSE [rpc EXCEPT ![s] = "select"]
         /\ UNCHANGED <<uiVars, isLocal, proc, runningMpvProcesses, socketOwner, envVars, probeVars, storeVars>>
    ELSE /\ pc' = [pc EXCEPT ![s] = "failed"]
         /\ inbox' = inbox (+) SetToBag({ErrMsg("remote")})
         /\ UNCHANGED <<m, stopped, pollTimers, isLocal, proc, rpc, runningMpvProcesses,
                        socketOwner, envVars, probeVars, storeVars>>

\* tracking goroutine: ReportStart for remote content, then the progress
\* goroutine is started; what ReportStart returns is not looked at
ReportStartStep(s, ok) ==
    /\ pc' = [pc EXCEPT ![s] = "run"]
    /\ rpc' = IF isLocal[s] THEN rpc ELSE [rpc EXCEPT ![s] = "select"]
    /\ UNCHANGED <<uiVars, isLocal, proc, runningMpvProcesses, socketOwner, envVars, probeVars, storeVars>>

TrackerStart(s) ==
    /\ pc[s] = "start"
    /\ ReportStartStep(s, RemoteOk)

\* tracking goroutine: cmd.Run() spawns mpv, which binds the IPC socket
TrackerRun(s) ==
    /\ pc[s] = "run"
    /\ pc' = [pc EXCEPT ![s] = "wait"]
    /\ proc' = [proc EXCEPT ![s] = "alive"]
    /\ socketOwner' = s
    /\ UNCHANGED <<uiVars, isLocal, rpc, runningMpvProcesses, envVars, probeVars, storeVars>>

\* mpv exits: end of file, a quit command, the user closes it
PlayerExit(s) ==
    /\ proc[s] = "alive"
    /\ proc' = [proc EXCEPT ![s] = "exited"]
    /\ socketOwner' = IF socketOwner = s THEN 0 ELSE socketOwner
    /\ UNCHANGED <<uiVars, pc, isLocal, rpc, runningMpvProcesses, envVars, probeVars, storeVars>>

\* tracking goroutine: cmd.Run() returns, close(done), the command is taken
\* off the tracking list
TrackerExit(s) ==
    /\ pc[s] = "wait"
    /\ proc[s] = "exited"
    /\ pc' = [pc EXCEPT ![s] = "final"]
    /\ runningMpvProcesses' = SelectSeq(runningMpvProcesses, LAMBDA t : t # s)
    /\ UNCHANGED <<uiVars, isLocal, proc, rpc, socketOwner, envVars, probeVars, storeVars>>

\* tracking goroutine: the final queries and the completion handling; what the
\* remote calls return is not looked at
TrackerFinal(s) ==
    /\ pc[s] = "final"
    /\ \E finalPosition \in Answers(Positions), finalDuration \in Answers(Durations) :
         LET e == CompletionEffects(isLocal[s], IsAuthenticated, finalPosition, finalDuration)
         IN inbox' = IF e.videoCompleted THEN Send(inbox, VideoCompletedMsg) ELSE inbox
    /\ pc' = [pc EXCEPT ![s] = "done"]
    /\ UNCHANGED <<m, stopped, pollTimers, isLocal, proc, rpc, runningMpvProcesses,
                   socketOwner, envVars, probeVars, storeVars>>

\* progress goroutine: select takes the closed done channel
ReporterStop(s) ==
    /\ rpc[s] = "select"
    /\ DoneClosed(s)
    /\ rpc' = [rpc EXCEPT ![s] = "stopped"]
    /\ UNCHANGED <<uiVars, pc, isLocal, proc, runningMpvProcesses, socketOwner, envVars, probeVars, storeVars>>

\* progress goroutine: select takes a tick of the 5 s ticker (a pending tick
\* can be taken also when done is closed) and getMpvPosition is called; a
\* position > 0 is reported next
ReporterQuery(s) ==
    /\ rpc[s] = "select"
    /\ \E position \in Answers(Positions) :
         rpc' = [rpc EXCEPT ![s] = IF position > 0 THEN "report" ELSE "select"]
    /\ UNCHANGED <<uiVars, pc, isLocal, proc, runningMpvProcesses, socketOwner, envVars, probeVars, storeVars>>

\* progress goroutine: ReportProgress; what it returns is not looked at
ReportProgressStep(s, ok) ==
    /\ rpc' = [rpc EXCEPT ![s] = "select"]
    /\ UNCHANGED <<uiVars, pc, isLocal, proc, runningMpvProcesses, socketOwner, envVars, probeVars, storeVars>>

ReporterSend(s) ==
    /\ rpc[s] = "report"
    /\ ReportProgressStep(s, RemoteOk)

\* the remote server becomes unreachable or reachable again
ServerFlip ==
    /\ mode = "online"
    /\ serverUp' = ~serverUp
    /\ UNCHANGED <<uiVars, sessVars, mode, probeVars, storeVars>>

\* ------------------------------------------------------- specifications
\* The event loop with the playItem cmds and tracking goroutines it starts.
\* The progress goroutines are left out: they write no state another
\* component reads.
NextLoop ==
    \/ KeyPress
    \/ Deliver
    \/ PollFire
    \/ \E s \in Sessions : PlayCleanup(s)
    \/ \E s \in Sessions : PlayLaunch(s)
    \/ \E s \in Sessions : PlayFail(s)
    \/ \E s \in Sessions : TrackerStart(s)
    \/ \E s \in Sessions : TrackerRun(s)
    \/ \E s \in Sessions : PlayerExit(s)
    \/ \E s \in Sessions : TrackerExit(s)
    \/ \E s \in Sessions : TrackerFinal(s)
    \/ ServerFlip

SpecLoop == Init /\ [][NextLoop]_vars

\* The playItem cmds with their tracking and progress goroutines, for an
\* online client.  The event loop is left out but for its starting a playItem
\* cmd, which it can do at any time.
InitTrack ==
    /\ Init
    /\ mode = "online"
    /\ inbox = SetToBag({LibrariesLoadedMsg})

NextTrack ==
    \/ PlayItemCmd
    \/ \E s \in Sessions : PlayCleanup(s)
    \/ \E s \in Sessions : PlayLaunch(s)
    \/ \E s \in Sessions : TrackerStart(s)
    \/ \E s \in Sessions : TrackerRun(s)
    \/ \E s \in Sessions : PlayerExit(s)
    \/ \E s \in Sessions : TrackerExit(s)
    \/ \E s \in Sessions : TrackerFinal(s)
    \/ \E s \in Sessions : ReporterStop(s)
    \/ \E s \in Sessions : ReporterQuery(s)
    \/ \E s \in Sessions : ReporterSend(s)
    \/ ServerFlip

SpecTrack == InitTrack /\ [][NextTrack]_vars

\* checkMpvStatus alone, on every combination of what its attempts meet and
\* of the answers to the position and duration queries
InitStatus ==
    /\ InitProgram
    /\ mode = "online"
    /\ inbox = SetToBag({LibrariesLoadedMsg})
    /\ \E attempts \in [1..MaxRetries -> AttemptOutcomes],
          position \in ProbePositions, duration \in ProbeDurations :
         statusProbe = [attempts |-> attempts, position |-> position, duration |-> duration,
                        done |-> FALSE, out |-> StatusZero]
    /\ completionProbe = [local |-> FALSE, authenticated |-> FALSE, finalPosition |-> 0,
                          finalDuration |-> 0, done |-> FALSE,
                          out |-> CompletionEffects(FALSE, FALSE, 0, 0)]
    /\ StoreIdle

CheckStatus ==
    /\ ~statusProbe.done
    /\ statusProbe' = [statusProbe EXCEPT
                         !.done = TRUE,
                         !.out = checkMpvStatus(statusProbe.attempts, statusProbe.position,
                                                statusProbe.duration)]
    /\ UNCHANGED <<uiVars, sessVars, envVars, completionProbe, storeVars>>

SpecStatus == InitStatus /\ [][CheckStatus]_vars

\* the completion handling alone, on every combination of the target's kind,
\* the client's authentication and the answers to the final queries
InitCompletion ==
    /\ InitProgram
    /\ mode = "online"
    /\ inbox = SetToBag({LibrariesLoadedMsg})
    /\ statusProbe = [attempts |-> [i \in 1..MaxRetries |-> "dialerr"], position |-> 0,
                      duration |-> 0, done |-> FALSE, out |-> StatusZero]
    /\ \E local \in BOOLEAN, authenticated \in BOOLEAN,
          finalPosition \in ProbePositions, finalDuration \in ProbeDurations :
         completionProbe = [local |-> local, authenticated |-> authenticated,
                            finalPosition |-> finalPosition, finalDuration |-> finalDuration,
                            done |-> FALSE, out |-> CompletionEffects(FALSE, FALSE, 0, 0)]
    /\ StoreIdle

HandleCompletion ==
    /\ ~completionProbe.done
    /\ completionProbe' = [completionProbe EXCEPT
                             !.done = TRUE,
                             !.out = CompletionEffects(completionProbe.local,
                                                       completionProbe.authenticated,
                                                       completionProbe.finalPosition,
                                                       completionProbe.finalDuration)]
    /\ UNCHANGED <<uiVars, sessVars, envVars, statusProbe, storeVars>>

SpecCompletion == InitCompletion /\ [][HandleCompletion]_vars

\* ------------------------------------------------------------ local storage
\* the items tried on the storage operations: a movie, two episodes of one
\* season of one series
MovieItem == Item("Movie", <<>>, <<"m">>, 0, 0, 0)
EpisodeItem == Item("Episode", <<"s">>, <<"e">>, 1, 1, 0)

\* BuildVideoPath: fullPath; DownloadVideo: tempPath
CanonicalPath(item) == Clean(<<>>, DownloadsDir \o RelativePath(item), TRUE)
TempPath(item) ==
    LET path == CanonicalPath(item)
    IN [path EXCEPT ![Len(path)] = path[Len(path)] \o TmpText]

\* the directories above path, the filesystem root included
Ancestors(path) == {SubSeq(path, 1, k) : k \in 0..(Len(path) - 1)}
\* os.MkdirAll
MkdirAll(ds, path) == ds \cup Ancestors(path) \cup {path}
\* path lies below dir
Below(path, dir) == Len(path) > Len(dir) /\ SubSeq(path, 1, Len(dir)) = dir
\* strings.HasSuffix
HasSuffix(name, suffix) ==
    Len(name) >= Len(suffix)
    /\ SubSeq(name, Len(name) - Len(suffix) + 1, Len(name)) = suffix

\* the walk of the downloads directory with the filter on the name left out
DiscoverEveryFile(fs) == {f \in fs : Below(f, DownloadsDir)}

\* DiscoverOfflineContent / ListDownloads: the walk of the downloads
\* directory keeps every regular file whose name ends in .mkv
DiscoverOfflineContent(fs) ==
    {f \in fs : Below(f, DownloadsDir) /\ HasSuffix(f[Len(f)], MkvText)}

\* ------------------------------------------------------ client construction
\* CreateOfflineClient without the check for offline content
CreateOfflineClientUnchecked(scanFails, entries) ==
    IF scanFails THEN [client |-> "none", err |-> "scan"]
    ELSE [client |-> "offline", err |-> "none"]

\* CreateOfflineClient: scanFails is a failing GetDownloadsDir or walk, entries
\* what DiscoverOfflineContent returns
CreateOfflineClient(scanFails, entries) ==
    IF scanFails THEN [client |-> "none", err |-> "scan"]
    ELSE IF entries = {} THEN [client |-> "none", err |-> "nocontent"]
    ELSE [client |-> "offline", err |-> "none"]

\* ConnectFromConfig: online is what BuildAndConnect meets (the connection
\* test fails, the authentication fails, or both succeed)
ConnectFromConfig(urlSet, online, scanFails, entries) ==
    IF ~urlSet THEN [client |-> "none", err |-> "config"]
    ELSE IF online # "ok" THEN CreateOfflineClient(scanFails, entries)
    ELSE [client |-> "online", err |-> "none"]

\* the files a filesystem is tried with
SampleFiles == {CanonicalPath(MovieItem), TempPath(MovieItem), CanonicalPath(EpisodeItem)}
\* the directories a filesystem with the files fs has, given those it had
DirsFor(ds, fs) == UNION ({ds} \cup {Ancestors(f) : f \in fs})

\* ConnectFromConfig alone, on every combination of configuration, outcome of
\* the online path and content of the downloads directory
InitConnect ==
    /\ InitProgram
    /\ mode = "online"
    /\ inbox = SetToBag({LibrariesLoadedMsg})
    /\ ProbeIdle
    /\ \E present \in SUBSET SampleFiles : files = [path \in present |-> 1]
    /\ dirs = DirsFor({<<>>, ConfigHome}, DOMAIN files)
    /\ called = Idle.called
    /\ dl = Idle.dl
    /\ requests = Idle.requests
    /\ pathProbe = Idle.pathProbe
    /\ \E urlSet \in BOOLEAN, online \in {"ok", "probeFail", "authFail"}, scanFails \in BOOLEAN :
         connectProbe = [urlSet |-> urlSet, online |-> online, scanFails |-> scanFails,
                         done |-> FALSE, out |-> [client |-> "none", err |-> "none"]]

\* the call; CreateOfflineClient's GetDownloadsDir creates the downloads
\* directory when it does not fail
Connect ==
    /\ ~connectProbe.done
    /\ connectProbe' = [connectProbe EXCEPT
                          !.done = TRUE,
                          !.out = ConnectFromConfig(connectProbe.urlSet, connectProbe.online,
                                                    connectProbe.scanFails,
                                                    DiscoverOfflineContent(DOMAIN files))]
    /\ dirs' = IF connectProbe.urlSet /\ connectProbe.online # "ok" /\ ~connectProbe.scanFails
               THEN MkdirAll(dirs, DownloadsDir) ELSE dirs
    /\ UNCHANGED <<uiVars, sessVars, envVars, probeVars, files, dl, requests, pathProbe, called>>

SpecConnect == InitConnect /\ [][Connect]_vars

\* ---------------------------------------------------------- remote requests
\* what the client's calls leave alone
StoreFrame == UNCHANGED <<uiVars, sessVars, envVars, probeVars, pathProbe, connectProbe>>

\* the API calls that answer from the downloads directory on an offline
\* client: LibrariesAPI.GetAll, ItemsAPI.Get, ItemsAPI.GetDetails
LocalWhenOffline == {"Libraries.GetAll", "Items.Get", "Items.GetDetails"}
\* an API call with the authentication guard left out
ApiRequestUnguarded(api) ==
    IF api \in LocalWhenOffline /\ IsOfflineMode THEN {} ELSE {api}

\* the requests an API call sends: none when it is served locally, none when
\* the client is not authenticated
ApiRequest(api) ==
    IF api \in LocalWhenOffline /\ IsOfflineMode THEN {}
    ELSE IF ~IsAuthenticated THEN {}
    ELSE {api}


\* playItem and its goroutines, start to end: local is what GetPlaybackURL
\* finds for an id that is not offline content
PlayItemRequests(id, local, finalPosition, finalDuration) ==
    LET offlineContent == IsOfflineMode /\ id \in {"offline-series", "offline-item"}
        isLocalPlay == offlineContent \/ local
        e == CompletionEffects(isLocalPlay, IsAuthenticated, finalPosition, finalDuration)
    IN ApiRequest("Items.GetDetails")
       \cup (IF offlineContent /\ id = "offline-series" THEN {}
             ELSE (IF isLocalPlay THEN {}
                   ELSE ApiRequest("Playback.ReportStart") \cup ApiRequest("Playback.ReportProgress"))
                  \cup (IF e.reportProgress THEN ApiRequest("Playback.ReportProgress") ELSE {})
                  \cup (IF e.markWatched THEN ApiRequest("Playback.MarkWatched") ELSE {})
                  \cup (IF e.reportStop THEN ApiRequest("Playback.ReportStop") ELSE {}))

Called(op, sent) ==
    requests' = [ops |-> requests.ops \cup {op}, sent |-> requests.sent \cup sent]

\* loadLibraries, loadItems, search and the special sections
Browse ==
    /\ \E api \in {"Libraries.GetAll", "Libraries.GetFolders", "Items.Get",
                    "Items.GetResumeItems", "Items.GetNextUp", "Search.Items"} :
         Called("browse", ApiRequest(api))
    /\ UNCHANGED <<files, dirs, dl, called>>
    /\ StoreFrame

\* loadItemDetails and the rendering of the details: renderKittyImage
\* fetches the thumbnail with the UI's own HTTP client, only for details that
\* carry an image tag, which those built from a local file never do
BrowseDetails ==
    /\ \E hasImage \in (IF IsOfflineMode THEN {FALSE} ELSE BOOLEAN) :
         Called("details", ApiRequest("Items.GetDetails")
                           \cup (IF hasImage THEN {"Image"} ELSE {}))
    /\ UNCHANGED <<files, dirs, dl, called>>
    /\ StoreFrame

\* playItem on one of the ids the listings hand to the UI
Play ==
    /\ \E id \in (IF IsOfflineMode THEN {"offline-series", "offline-item"} ELSE {"remote"}), local \in BOOLEAN, finalPosition \in Positions, finalDuration \in Durations :
         Called("play", PlayItemRequests(id, local, finalPosition, finalDuration))
    /\ UNCHANGED <<files, dirs, dl, called>>
    /\ StoreFrame

ToggleWatched ==
    /\ \E api \in {"Playback.MarkWatched", "Playback.MarkUnwatched"} :
         Called("watched", ApiRequest(api))
    /\ UNCHANGED <<files, dirs, dl, called>>
    /\ StoreFrame

\* the UI's downloadVideo command: DownloadVideo unless the item is there
DownloadCmd ==
    /\ \E downloaded \in BOOLEAN :
         Called("download", IF downloaded THEN {} ELSE ApiRequest("Download.DownloadVideo"))
    /\ UNCHANGED <<files, dirs, dl, called>>
    /\ StoreFrame

InitRequests ==
    /\ InitProgram
    /\ inbox = SetToBag({LibrariesLoadedMsg})
    /\ ProbeIdle
    /\ StoreIdle

NextRequests == Browse \/ BrowseDetails \/ Play \/ ToggleWatched \/ DownloadCmd

SpecRequests == InitRequests /\ [][NextRequests]_vars

\* --------------------------------------------------------- download manager
\* the chunks of the longest response body
MaxChunks == 2

\* os.Remove of a regular file
RemoveFile(fs, path) == [p \in DOMAIN fs \ {path} |-> fs[p]]
\* os.Rename
Rename(fs, from, to) ==
    [p \in (DOMAIN fs \ {from}) \cup {to} |-> IF p = to THEN fs[from] ELSE fs[p]]

\* os.Remove(tempPath) while outFile is still open (its Close is deferred):
\* the file goes on POSIX systems and stays on Windows, where an open file
\* cannot be deleted; the error is not looked at
RemoveOpenFile == {TRUE, FALSE}

\* GetDownloadsDir and BuildVideoPath: the directories there after the call
BuildVideoPathDirs(ds, item) ==
    MkdirAll(MkdirAll(ds, DownloadsDir), Dir(CanonicalPath(item)))

\* IsDownloaded: os.Stat on the path BuildVideoPath returns
IsDownloaded(fs, item) == CanonicalPath(item) \in DOMAIN fs

\* ListDownloads: the keys of the map, paths relative to the downloads directory
ListDownloads(fs) ==
    {SubSeq(f, Len(DownloadsDir) + 1, Len(f)) : f \in DiscoverOfflineContent(DOMAIN fs)}

\* RemoveDownload, the loop over the parent directories: it goes on while
\* os.Remove succeeds, which it does on an empty directory only, and ends
\* where filepath.Dir has nothing more to take
RECURSIVE CleanupParents(_, _, _)
CleanupParents(ds, fs, parentDir) ==
    IF parentDir = Dir(parentDir) THEN ds
    ELSE IF parentDir \notin ds \/ \E p \in ds \cup DOMAIN fs : Below(p, parentDir) THEN ds
    ELSE CleanupParents(ds \ {parentDir}, fs, Dir(parentDir))

\* os.OpenFile with O_CREATE alone: what is in the file stays
CreateFileKeeping(fs, path) ==
    [p \in DOMAIN fs \cup {path} |-> IF p \in DOMAIN fs THEN fs[p] ELSE 0]

\* os.Create: the file is created, or truncated when it is there
CreateFile(fs, path) ==
    [p \in DOMAIN fs \cup {path} |-> IF p = path THEN 0 ELSE fs[p]]

\* DownloadVideo's start with the check for an existing file left out
DownloadStartUnchecked(authenticated, fs, item) ==
    IF ~authenticated
    THEN [pc |-> "done", item |-> item, result |-> "NotAuthenticated", progress |-> <<>>]
    ELSE [pc |-> "request", item |-> item, result |-> "none", progress |-> <<>>]

\* DownloadVideo up to the request: the authentication guard, then the check
\* for an existing file
DownloadStart(authenticated, fs, item) ==
    IF ~authenticated
    THEN [pc |-> "done", item |-> item, result |-> "NotAuthenticated", progress |-> <<>>]
    ELSE IF IsDownloaded(fs, item)
    THEN [pc |-> "done", item |-> item, result |-> "AlreadyExists", progress |-> <<>>]
    ELSE [pc |-> "request", item |-> item, result |-> "none", progress |-> <<>>]

\* the rename of the finished temp file, with the target left at the temp path
RenameToTemp(fs, item) == fs

\* DownloadVideo's last step when os.Rename succeeds
RenameToFinal(fs, item) == Rename(fs, TempPath(item), CanonicalPath(item))

\* the items the storage operations are called with: two episodes that
\* share their season directory, and a third item with the series, numbers
\* and title of the first and another production year
StoreItems == {EpisodeItem, Item("Episode", <<"s">>, <<"f">>, 1, 2, 0),
               Item("Episode", <<"s">>, <<"e">>, 1, 1, 1999)}
\* a file that is not a download: the configuration file next to the
\* downloads directory
OtherFiles == {Dir(DownloadsDir) \o <<<<"c", "f", "g">>>>}

\* an error return; the calls of progressCallback made before it are not
\* kept
Fail(item) == [pc |-> "done", item |-> item, result |-> "DownloadFailed", progress |-> <<>>]
InProgress == dl.pc \in {"request", "create", "copy", "rename"}

DownloadBegin ==
    /\ dl.pc = "idle"
    /\ \E item \in StoreItems :
         /\ dl' = DownloadStart(IsAuthenticated, files, item)
         /\ dirs' = IF IsAuthenticated THEN BuildVideoPathDirs(dirs, item) ELSE dirs
    /\ UNCHANGED <<files, requests, called>>
    /\ StoreFrame

\* client.http.Do and the status check
DownloadRequest ==
    /\ dl.pc = "request"
    /\ requests' = [requests EXCEPT !.sent = @ \cup {"Download.DownloadVideo"}]
    /\ \E ok \in BOOLEAN : dl' = IF ok THEN [dl EXCEPT !.pc = "create"] ELSE Fail(dl.item)
    /\ UNCHANGED <<files, dirs, called>>
    /\ StoreFrame

\* os.Create(tempPath): fails when the parent directory is gone
DownloadCreate ==
    /\ dl.pc = "create"
    /\ IF Dir(TempPath(dl.item)) \in dirs
       THEN /\ files' = CreateFile(files, TempPath(dl.item))
            /\ dl' = [dl EXCEPT !.pc = "copy"]
       ELSE /\ dl' = Fail(dl.item)
            /\ UNCHANGED files
    /\ UNCHANGED <<dirs, requests, called>>
    /\ StoreFrame

\* one round of the copy loop: a chunk of n > 0 units written and
\* progressCallback(downloaded, contentLength) called (the log keeps its
\* first argument), the end of the body, or a read or write error. A Read of
\* n = 0 without an error writes nothing and calls nothing: a stuttering step.
\* The size of a file is counted in the unit of which a body has at most
\* MaxChunks.
DownloadCopy ==
    /\ dl.pc = "copy"
    /\ \/ /\ \E n \in 1..(MaxChunks - files[TempPath(dl.item)]) :
               LET downloaded == (IF dl.progress = <<>> THEN 0
                                  ELSE dl.progress[Len(dl.progress)]) + n
               IN /\ files' = [files EXCEPT ![TempPath(dl.item)] = @ + n]
                  /\ dl' = [dl EXCEPT !.progress = Append(@, downloaded)]
       \/ /\ dl' = [dl EXCEPT !.pc = "rename"]
          /\ UNCHANGED files
       \/ /\ \E removed \in RemoveOpenFile :
               files' = IF removed THEN RemoveFile(files, TempPath(dl.item)) ELSE files
          /\ dl' = Fail(dl.item)
    /\ UNCHANGED <<dirs, requests, called>>
    /\ StoreFrame

\* outFile.Close and os.Rename
DownloadRename ==
    /\ dl.pc = "rename"
    /\ \/ /\ files' = RenameToFinal(files, dl.item)
          /\ dl' = [dl EXCEPT !.pc = "done", !.result = "ok"]
       \/ /\ files' = RemoveFile(files, TempPath(dl.item))
          /\ dl' = Fail(dl.item)
    /\ UNCHANGED <<dirs, requests, called>>
    /\ StoreFrame

DownloadReturn ==
    /\ dl.pc = "done"
    /\ dl' = Idle.dl
    /\ UNCHANGED <<files, dirs, requests, called>>
    /\ StoreFrame

Call(op, item, err) ==
    called' = [op |-> op, item |-> item, err |-> err, n |-> 1 - called.n]

IsDownloadedCall ==
    /\ \E item \in StoreItems :
         /\ dirs' = BuildVideoPathDirs(dirs, item)
         /\ Call("IsDownloaded", item, "none")
    /\ UNCHANGED <<files, dl, requests>>
    /\ StoreFrame

\* ListDownloads and DiscoverOfflineContent
ScanCall ==
    /\ dirs' = MkdirAll(dirs, DownloadsDir)
    /\ \E op \in {"ListDownloads", "DiscoverOfflineContent"} : Call(op, NoItem, "none")
    /\ UNCHANGED <<files, dl, requests>>
    /\ StoreFrame

RemoveDownload ==
    /\ \E item \in StoreItems :
         LET filePath == CanonicalPath(item)
             built == BuildVideoPathDirs(dirs, item)
         IN IF filePath \in DOMAIN files
            THEN /\ files' = RemoveFile(files, filePath)
                 /\ dirs' = CleanupParents(built, RemoveFile(files, filePath), Dir(filePath))
                 /\ Call("RemoveDownload", item, "none")
            ELSE /\ dirs' = built
                 /\ Call("RemoveDownload", item, "NotFound")
                 /\ UNCHANGED files
    /\ UNCHANGED <<dl, requests>>
    /\ StoreFrame

\* a client of either mode over a configuration home with any of the
\* downloads and of the other files already there
InitStore ==
    /\ InitProgram
    /\ inbox = SetToBag({LibrariesLoadedMsg})
    /\ ProbeIdle
    /\ \E present \in SUBSET ({CanonicalPath(i) : i \in StoreItems} \cup OtherFiles) :
         /\ files = [path \in present |-> 1]
         /\ dirs = DirsFor({<<>>, ConfigHome}, present)
    /\ dl = Idle.dl
    /\ requests = Idle.requests
    /\ pathProbe = Idle.pathProbe
    /\ connectProbe = Idle.connectProbe
    /\ called = Idle.called

NextStore ==
    \/ DownloadBegin \/ DownloadRequest \/ DownloadCreate \/ DownloadCopy
    \/ DownloadRename \/ DownloadReturn
    \/ IsDownloadedCall \/ ScanCall \/ RemoveDownload

SpecStore == InitStore /\ [][NextStore]_vars

\* ------------------------------------------------ offline catalog: parsing
\* parseOfflineContent on a file's path relative to the downloads directory:
\* the type from the directories, the numbers and the title from the names.
\* fmt.Sscanf stores each number as soon as it is read and stops at the first
\* mismatch; "%02d" reads at most two characters. A sign before a number is
\* not modelled.
parseOfflineContent(relPath) ==
    LET Digits == <<"0", "1", "2", "3", "4", "5", "6", "7", "8", "9">>
        IsDigit(c) == \E d \in 1..10 : Digits[d] = c
        RECURSIVE Number(_)
        Number(str) == IF str = <<>> THEN 0
                       ELSE 10 * Number(SubSeq(str, 1, Len(str) - 1))
                            + (CHOOSE d \in 1..10 : Digits[d] = str[Len(str)]) - 1
        \* the digits at the start of str that a verb of the given width reads
        Run(str, width) ==
            LET most == IF Len(str) < width THEN Len(str) ELSE width
                k == CHOOSE k \in 0..most :
                       /\ \A i \in 1..k : IsDigit(str[i])
                       /\ k = most \/ ~IsDigit(str[k + 1])
            IN SubSeq(str, 1, k)
        HasPrefix(str, prefix) == Len(str) >= Len(prefix) /\ SubSeq(str, 1, Len(prefix)) = prefix
        \* strings.Index, 0 when absent
        Index(str, sub) ==
            LET at == {i \in 1..(Len(str) - Len(sub) + 1) : SubSeq(str, i, i + Len(sub) - 1) = sub}
            IN IF at = {} THEN 0 ELSE CHOOSE i \in at : \A j \in at : i <= j
        \* the characters of str at the positions kept, in order
        Keep(str, kept) ==
            LET tagged == SelectSeq([i \in 1..Len(str) |-> <<i, str[i]>>], LAMBDA p : p[1] \in kept)
            IN [k \in 1..Len(tagged) |-> tagged[k][2]]
        fileName == relPath[Len(relPath)]
        name == IF HasSuffix(fileName, MkvText) THEN SubSeq(fileName, 1, Len(fileName) - 4) ELSE fileName
        \* strings.Split(filepath.Dir(relativePath), separator)
        pathParts == IF Len(relPath) = 1 THEN <<<<".">>>> ELSE SubSeq(relPath, 1, Len(relPath) - 1)
        content == [type |-> "Other", name |-> name, seriesName |-> <<>>,
                    season |-> 0, episode |-> 0, year |-> 0]
    IN IF Len(pathParts) >= 2 /\ HasPrefix(pathParts[2], <<"S", "e", "a", "s", "o", "n">>)
       THEN LET seasonStr == TrimSpace(IF HasPrefix(pathParts[2], <<"S", "e", "a", "s", "o", "n", " ">>)
                                       THEN SubSeq(pathParts[2], 8, Len(pathParts[2]))
                                       ELSE pathParts[2])
                \* fmt.Sscanf(seasonStr, "%d", &content.SeasonNumber)
                folderRun == Run(seasonStr, Len(seasonStr))
                folderSeason == IF folderRun = <<>> THEN 0 ELSE Number(folderRun)
                dash == Index(name, <<" ", "-", " ">>)
                \* strings.SplitN(content.Name, " - ", 2)
                episodeCode == SubSeq(name, 1, dash - 1)
                title == SubSeq(name, dash + 3, Len(name))
                \* fmt.Sscanf(episodeCode, "S%02dE%02d", ...)
                scans == dash > 0 /\ HasPrefix(episodeCode, <<"S">>) /\ Index(episodeCode, <<"E">>) > 0
                seasonRun == Run(SubSeq(episodeCode, 2, Len(episodeCode)), 2)
                afterSeason == SubSeq(episodeCode, 2 + Len(seasonRun), Len(episodeCode))
                episodeRun == IF seasonRun # <<>> /\ HasPrefix(afterSeason, <<"E">>)
                              THEN Run(SubSeq(afterSeason, 2, Len(afterSeason)), 2) ELSE <<>>
            IN [content EXCEPT
                  !.type = "Episode",
                  !.seriesName = pathParts[1],
                  !.name = IF dash > 0 THEN title ELSE name,
                  !.season = IF scans /\ seasonRun # <<>> THEN Number(seasonRun) ELSE folderSeason,
                  !.episode = IF scans /\ episodeRun # <<>> THEN Number(episodeRun) ELSE 0]
       ELSE IF pathParts[1] = <<"M", "o", "v", "i", "e", "s">>
       THEN LET \* regexp \((\d{4})\): where a match starts
                matches == {i \in 1..(Len(name) - 5) :
                              /\ name[i] = "(" /\ name[i + 5] = ")"
                              /\ \A j \in (i + 1)..(i + 4) : IsDigit(name[j])}
                first == CHOOSE i \in matches : \A j \in matches : i <= j
                \* re.ReplaceAllString(content.Name, "")
                kept == {i \in 1..Len(name) : \A s \in matches : i < s \/ i > s + 5}
            IN IF matches = {} THEN [content EXCEPT !.type = "Movie"]
               ELSE [content EXCEPT
                       !.type = "Movie",
                       !.year = Number(SubSeq(name, first + 1, first + 4)),
                       !.name = TrimSpace(Keep(name, kept))]
       ELSE content

\* the slug without the trim of the separators at its ends
sanitizeIDUntrimmed(id) ==
    LET AlphaNum == {"a", "b", "c", "d", "e", "f", "g", "h", "i", "j", "k", "l", "m",
                     "n", "o", "p", "q", "r", "s", "t", "u", "v", "w", "x", "y", "z",
                     "A", "B", "C", "D", "E", "F", "G", "H", "I", "J", "K", "L", "M",
                     "N", "O", "P", "Q", "R", "S", "T", "U", "V", "W", "X", "Y", "Z",
                     "0", "1", "2", "3", "4", "5", "6", "7", "8", "9"}
        \* where an alphanumeric stands or a run of other characters starts
        marks == {i \in 1..Len(id) : id[i] \in AlphaNum \/ i = 1 \/ id[i - 1] \in AlphaNum}
        tagged == SelectSeq([i \in 1..Len(id) |-> <<i, IF id[i] \in AlphaNum THEN id[i] ELSE "-">>],
                            LAMBDA p : p[1] \in marks)
        replaced == [k \in 1..Len(tagged) |-> tagged[k][2]]
    IN replaced

\* sanitizeID: every run of [^a-zA-Z0-9] becomes one "-", then
\* strings.Trim(sanitized, "-")
sanitizeID(id) ==
    LET AlphaNum == {"a", "b", "c", "d", "e", "f", "g", "h", "i", "j", "k", "l", "m",
                     "n", "o", "p", "q", "r", "s", "t", "u", "v", "w", "x", "y", "z",
                     "A", "B", "C", "D", "E", "F", "G", "H", "I", "J", "K", "L", "M",
                     "N", "O", "P", "Q", "R", "S", "T", "U", "V", "W", "X", "Y", "Z",
                     "0", "1", "2", "3", "4", "5", "6", "7", "8", "9"}
        \* where an alphanumeric stands or a run of other characters starts
        marks == {i \in 1..Len(id) : id[i] \in AlphaNum \/ i = 1 \/ id[i - 1] \in AlphaNum}
        tagged == SelectSeq([i \in 1..Len(id) |-> <<i, IF id[i] \in AlphaNum THEN id[i] ELSE "-">>],
                            LAMBDA p : p[1] \in marks)
        replaced == [k \in 1..Len(tagged) |-> tagged[k][2]]
        sanitized == replaced
        kept == {i \in 1..Len(sanitized) : sanitized[i] # "-"}
    IN IF kept = {} THEN <<>>
       ELSE SubSeq(sanitized, CHOOSE i \in kept : \A j \in kept : i <= j,
                              CHOOSE i \in kept : \A j \in kept : i >= j)

\* ------------------------------------------------ offline catalog: entries
\* The lists the catalog returns are bags of entries: an entry the code
\* appends twice counts twice. offlineContent is what the walk of
\* DiscoverOfflineContent collects: a file and what parseOfflineContent
\* makes of it. An id "prefix-slug" is the pair of its two parts.

\* the catalog with a folder entry appended for every episode
convertToItemsPerEpisode(offlineContent) ==
    LET Folder(n) == [name |-> n, id |-> <<"offline-series", sanitizeID(n)>>,
                      isFolder |-> TRUE, type |-> "Series", year |-> 0]
        Leaf(c) == [name |-> c.name,
                    id |-> <<IF c.type = "Movie" THEN "offline-movie" ELSE "offline-other",
                             sanitizeID(c.name)>>,
                    isFolder |-> FALSE,
                    type |-> IF c.type = "Movie" THEN "Movie" ELSE "Video",
                    year |-> IF c.type = "Movie" THEN c.year ELSE 0]
        episodes == {x \in offlineContent : x.content.type = "Episode"}
        leaves == offlineContent \ episodes
    IN [e \in {Folder(x.content.seriesName) : x \in episodes} \cup {Leaf(x.content) : x \in leaves} |->
          IF e.isFolder THEN Cardinality({x \in episodes : x.content.seriesName = e.name})
          ELSE Cardinality({x \in leaves : Leaf(x.content) = e})]

\* convertToItems: one folder entry per key of seriesMap, one leaf entry per
\* movie and per other file
convertToItems(offlineContent) ==
    LET Folder(n) == [name |-> n, id |-> <<"offline-series", sanitizeID(n)>>,
                      isFolder |-> TRUE, type |-> "Series", year |-> 0]
        Leaf(c) == [name |-> c.name,
                    id |-> <<IF c.type = "Movie" THEN "offline-movie" ELSE "offline-other",
                             sanitizeID(c.name)>>,
                    isFolder |-> FALSE,
                    type |-> IF c.type = "Movie" THEN "Movie" ELSE "Video",
                    year |-> IF c.type = "Movie" THEN c.year ELSE 0]
        episodes == {x \in offlineContent : x.content.type = "Episode"}
        leaves == offlineContent \ episodes
    IN [e \in {Folder(x.content.seriesName) : x \in episodes} \cup {Leaf(x.content) : x \in leaves} |->
          IF e.isFolder THEN 1
          ELSE Cardinality({x \in leaves : Leaf(x.content) = e})]

\* GetOfflineEpisodes: the walk of the series directory keeps the .mkv files
\* that parse as episodes of seriesName
GetOfflineEpisodes(fs, seriesName) ==
    LET RECURSIVE FilePath(_)
        FilePath(path) == IF path = <<>> THEN <<>>
                          ELSE <<"/">> \o Head(path) \o FilePath(Tail(path))
        Content(f) == parseOfflineContent(SubSeq(f, Len(DownloadsDir) + 1, Len(f)))
        Episode(f) == [name |-> Content(f).name,
                       id |-> <<"offline-episode", sanitizeID(FilePath(f))>>,
                       isFolder |-> FALSE, type |-> "Episode",
                       seriesName |-> Content(f).seriesName,
                       season |-> Content(f).season, episode |-> Content(f).episode]
        kept == {f \in DiscoverOfflineContent(fs) :
                   /\ Below(f, DownloadsDir \o <<seriesName>>)
                   /\ Content(f).type = "Episode"
                   /\ Content(f).seriesName = seriesName}
    IN [e \in {Episode(f) : f \in kept} |-> Cardinality({f \in kept : Episode(f) = e})]

\* DiscoverOfflineContent and GetOfflineEpisodes as getOfflineItems calls
\* them, on the files that are there
CatalogCall ==
    /\ dirs' = MkdirAll(dirs, DownloadsDir)
    /\ \/ Call("DiscoverOfflineContent",
               convertToItems({[path |-> f,
                                content |-> parseOfflineContent(SubSeq(f, Len(DownloadsDir) + 1, Len(f)))] :
                               f \in DiscoverOfflineContent(DOMAIN files)}),
               "none")
       \/ \E seriesName \in {<<"s">>, <<"z">>, <<"M", "o", "v", "i", "e", "s">>, <<"q">>} :
            Call("GetOfflineEpisodes",
                 [seriesName |-> seriesName,
                  episodes |-> GetOfflineEpisodes(DOMAIN files, seriesName)],
                 "none")
    /\ UNCHANGED <<files, dl, requests>>
    /\ StoreFrame

\* ------------------------------------------------ offline catalog: lookup
\* filepath.Walk visits the names of a directory in the order of their bytes,
\* and what lies below a directory before the next name: WalkBefore(f, g) is
\* f being visited before g
WalkBefore(f, g) ==
    LET Bytes == <<" ", "(", ")", "-", ".",
                   "0", "1", "2", "3", "4", "5", "6", "7", "8", "9",
                   "A", "B", "C", "D", "E", "F", "G", "H", "I", "J", "K", "L", "M",
                   "N", "O", "P", "Q", "R", "S", "T", "U", "V", "W", "X", "Y", "Z",
                   "a", "b", "c", "d", "e", "f", "g", "h", "i", "j", "k", "l", "m",
                   "n", "o", "p", "q", "r", "s", "t", "u", "v", "w", "x", "y", "z">>
        Rank(c) == CHOOSE i \in 1..Len(Bytes) : Bytes[i] = c
        NameBefore(a, b) ==
            \E k \in 1..(Len(b)) :
              /\ k <= Len(a) + 1
              /\ SubSeq(a, 1, k - 1) = SubSeq(b, 1, k - 1)
              /\ k <= Len(a) => Rank(a[k]) < Rank(b[k])
    IN \E k \in 1..Len(f) :
         /\ k <= Len(g)
         /\ SubSeq(f, 1, k - 1) = SubSeq(g, 1, k - 1)
         /\ NameBefore(f[k], g[k])

\* GetOfflineItemByID: the walk of the downloads directory recomputes the id
\* of every .mkv file and goes on after a match, so that the last file whose
\* id matches is the one returned; "offline item not found" without a match
GetOfflineItemByID(fs, itemID) ==
    LET RECURSIVE FilePath(_)
        FilePath(path) == IF path = <<>> THEN <<>>
                          ELSE <<"/">> \o Head(path) \o FilePath(Tail(path))
        Content(f) == parseOfflineContent(SubSeq(f, Len(DownloadsDir) + 1, Len(f)))
        expectedID(f) ==
            CASE Content(f).type = "Episode" -> <<"offline-episode", sanitizeID(FilePath(f))>>
              [] Content(f).type = "Movie" -> <<"offline-movie", sanitizeID(Content(f).name)>>
              [] OTHER -> <<"offline-other", sanitizeID(Content(f).name)>>
        matches == {f \in DiscoverOfflineContent(fs) : expectedID(f) = itemID}
        foundPath == CHOOSE f \in matches : \A g \in matches \ {f} : WalkBefore(g, f)
    IN IF matches = {} THEN [id |-> itemID, content |-> <<>>, path |-> <<>>, err |-> "NotFound"]
       ELSE [id |-> itemID, content |-> <<Content(foundPath)>>, path |-> foundPath, err |-> "none"]

\* GetOfflineItemByID as playItem and loadItemDetails call it: with the id of
\* an entry the catalog lists for the files that are there, with the id of a
\* movie that may be gone, with the id of a folder entry
ItemByIDCall ==
    /\ dirs' = MkdirAll(dirs, DownloadsDir)
    /\ \E itemID \in {e.id : e \in UNION {
                         DOMAIN convertToItems(
                           {[path |-> f,
                             content |-> parseOfflineContent(SubSeq(f, Len(DownloadsDir) + 1, Len(f)))] :
                            f \in DiscoverOfflineContent(DOMAIN files)})}
                         \cup UNION {DOMAIN GetOfflineEpisodes(DOMAIN files, seriesName) :
                                       seriesName \in {<<"s">>, <<"z">>}}}
                     \cup {<<"offline-movie", <<"m">>>>} :
         LET found == GetOfflineItemByID(DOMAIN files, itemID)
         IN Call("GetOfflineItemByID", found, found.err)
    /\ UNCHANGED <<files, dl, requests>>
    /\ StoreFrame

\* an offline client over a downloads directory with any of: two movie files
\* of one name, two episodes of one series and one of another, an episode of
\* a series named as the movie directory, files outside the naming scheme,
\* a temporary file
InitCatalog ==
    /\ InitProgram
    /\ mode = "offline"
    /\ inbox = SetToBag({LibrariesLoadedMsg})
    /\ ProbeIdle
    /\ \E present \in SUBSET ({CanonicalPath(MovieItem), TempPath(MovieItem),
                               CanonicalPath(EpisodeItem),
                               CanonicalPath(Item("Episode", <<"s">>, <<"f">>, 1, 2, 0)),
                               CanonicalPath(Item("Episode", <<"z">>, <<"a", " ", "-", " ", "b">>, 2, 0, 0))}
                              \cup {DownloadsDir \o rel : rel \in
                                      {<<<<"M", "o", "v", "i", "e", "s">>, <<"x">>, <<"m">> \o MkvText>>,
                                       <<<<"M", "o", "v", "i", "e", "s">>, <<"S", "e", "a", "s", "o", "n", "s">>,
                                         <<"m">> \o MkvText>>,
                                       <<<<"s">>, <<"x">> \o MkvText>>,
                                       <<<<"x">> \o MkvText>>}}) :
         /\ files = [path \in present |-> 1]
         /\ dirs = DirsFor({<<>>, ConfigHome}, present)
    /\ dl = Idle.dl
    /\ requests = Idle.requests
    /\ pathProbe = Idle.pathProbe
    /\ connectProbe = Idle.connectProbe
    /\ called = Idle.called

SpecCatalog == InitCatalog /\ [][CatalogCall]_vars

\* an offline client over a downloads directory with any of: a movie without
\* and with a year, a movie of another name, two episodes of one
\* series, a file outside the naming scheme
InitLookup ==
    /\ InitProgram
    /\ mode = "offline"
    /\ inbox = SetToBag({LibrariesLoadedMsg})
    /\ ProbeIdle
    /\ \E present \in SUBSET {CanonicalPath(MovieItem),
                              CanonicalPath(Item("Movie", <<>>, <<"m">>, 0, 0, 1999)),
                              CanonicalPath(Item("Movie", <<>>, <<"n">>, 0, 0, 1999)),
                              CanonicalPath(EpisodeItem),
                              CanonicalPath(Item("Episode", <<"s">>, <<"f">>, 1, 2, 0)),
                              DownloadsDir \o <<<<"x">> \o MkvText>>} :
         /\ files = [path \in present |-> 1]
         /\ dirs = DirsFor({<<>>, ConfigHome}, present)
    /\ dl = Idle.dl
    /\ requests = Idle.requests
    /\ pathProbe = Idle.pathProbe
    /\ connectProbe = Idle.connectProbe
    /\ called = Idle.called

SpecLookup == InitLookup /\ [][ItemByIDCall]_vars

\* ------------------------------------------------------- the client exits
\* Menu / MenuWithClient after p.Run() returns, and the signal handler of
\* setupCleanupHandlers: CleanupMpvProcesses, then the process ends and its
\* goroutines with it. A tracking goroutine that is inside cmd.Run() at that
\* moment may have started its player already without cmd.Process being
\* visible to the cleanup (the field is written and read without
\* synchronisation): such a player is started and not killed.
Exit ==
    /\ \E s \in Sessions : pc[s] # "exited"
    /\ \E started \in SUBSET {s \in Sessions : pc[s] = "run"} :
         proc' = [s \in Sessions |-> IF s \in started THEN "alive" ELSE Killed[s]]
    /\ runningMpvProcesses' = <<>>
    /\ socketOwner' = 0
    /\ pc' = [s \in Sessions |-> "exited"]
    /\ rpc' = [s \in Sessions |-> "exited"]
    /\ UNCHANGED <<uiVars, isLocal, envVars, probeVars, storeVars>>

\* playItem's goroutines and the exit of the client
SpecExit == InitTrack /\ [][NextTrack \/ Exit]_vars

\* ------------------------------------------------- playItem: the target
\* GetPlaybackURL: the local path when the details are there and
\* GetLocalVideoPath finds the file, the download URL of the item otherwise
GetPlaybackURL(fs, detailedItem, item) ==
    IF detailedItem /\ IsDownloaded(fs, item)
    THEN [streamURL |-> CanonicalPath(item), isLocal |-> TRUE]
    ELSE [streamURL |-> <<"Items", item, "Download">>, isLocal |-> FALSE]

\* the arguments with the start position also for a position of 0
MpvArgsAlways(startPositionTicks, streamURL) ==
    <<[name |-> "--input-ipc-server", value |-> "/tmp/jtui-mpvsocket"],
      [name |-> "--title", value |-> "jtui-player"]>>
    \o (IF startPositionTicks >= 0
        THEN <<[name |-> "--start", value |-> (startPositionTicks + 50000) \div 100000]>>
        ELSE <<>>)
    \o <<[name |-> "target", value |-> streamURL]>>

\* playItem: the arguments of the mpv command. "--start=%.2f" of
\* ticks / 10000000.0 is held as the number of hundredths of a second it
\* shows: the nearest one (when ticks lie exactly between two hundredths the
\* binary value of the quotient decides; no such input is tried)
MpvArgs(startPositionTicks, streamURL) ==
    <<[name |-> "--input-ipc-server", value |-> "/tmp/jtui-mpvsocket"],
      [name |-> "--title", value |-> "jtui-player"]>>
    \o (IF startPositionTicks > 0
        THEN <<[name |-> "--start", value |-> (startPositionTicks + 50000) \div 100000]>>
        ELSE <<>>)
    \o <<[name |-> "target", value |-> streamURL]>>

\* playItem from GetDetails to the start of the tracking goroutine, with the
\* files that are there: GetDetails fails when the server does not answer;
\* an offline client takes the path GetOfflineItemByID finds (PlayFail is the
\* case that it finds none). The item, the start position and the arguments
\* handed to the player are recorded.
PlayResolve(s) ==
    /\ pc[s] = "resolve"
    /\ \E item \in StoreItems, startPositionTicks \in {0, 1, 12345678} :
         LET detailedItem == IsOfflineMode \/ RemoteOk
             url == IF IsOfflineMode
                    THEN [streamURL |-> CanonicalPath(item), isLocal |-> TRUE]
                    ELSE GetPlaybackURL(files, detailedItem, item)
         IN /\ IsOfflineMode => IsDownloaded(files, item)
            /\ isLocal' = [isLocal EXCEPT ![s] = url.isLocal]
            /\ Call("playItem", [item |-> item, startPositionTicks |-> startPositionTicks],
                    MpvArgs(startPositionTicks, url.streamURL))
            /\ dirs' = IF ~IsOfflineMode /\ detailedItem THEN BuildVideoPathDirs(dirs, item)
                       ELSE MkdirAll(dirs, DownloadsDir)
    /\ runningMpvProcesses' = Append(runningMpvProcesses, s)
    /\ pc' = [pc EXCEPT ![s] = "start"]
    /\ UNCHANGED <<uiVars, proc, rpc, socketOwner, envVars, probeVars,
                   files, dl, requests, pathProbe, connectProbe>>

\* playItem's goroutines over a downloads directory with any of the items'
\* files, for a client of either mode
InitPlay ==
    /\ InitProgram
    /\ inbox = SetToBag({LibrariesLoadedMsg})
    /\ ProbeIdle
    /\ \E present \in SUBSET {CanonicalPath(i) : i \in StoreItems} :
         /\ files = [path \in present |-> 1]
         /\ dirs = DirsFor({<<>>, ConfigHome}, present)
    /\ dl = Idle.dl
    /\ requests = Idle.requests
    /\ pathProbe = Idle.pathProbe
    /\ connectProbe = Idle.connectProbe
    /\ called = Idle.called

\* the player failing to start on a stream of the server: some item has no
\* local copy
PlayFailRemote(s) ==
    /\ \E item \in StoreItems : ~IsDownloaded(files, item)
    /\ PlayFail(s)

NextPlay ==
    \/ Deliver
    \/ PlayItemCmd
    \/ \E s \in Sessions : PlayCleanup(s)
    \/ \E s \in Sessions : PlayResolve(s)
    \/ \E s \in Sessions : PlayFailRemote(s)
    \/ \E s \in Sessions : TrackerStart(s)
    \/ \E s \in Sessions : TrackerRun(s)
    \/ \E s \in Sessions : PlayerExit(s)
    \/ \E s \in Sessions : TrackerExit(s)
    \/ \E s \in Sessions : TrackerFinal(s)
    \/ \E s \in Sessions : ReporterStop(s)
    \/ \E s \in Sessions : ReporterQuery(s)
    \/ \E s \in Sessions : ReporterSend(s)
    \/ ServerFlip

SpecPlay == InitPlay /\ [][NextPlay]_vars

\* ------------------------------------------- the status poll's IPC queries
\* getMpvPositionWithRetry / getMpvDurationWithRetry: for retry := 0; retry < 2
RetryLimit == 2

\* the loop with the bound of checkMpvStatus
getMpvPropertyWithRetryThrice(attempts, data) ==
    LET RECURSIVE From(_)
        From(retry) ==
            IF retry >= MaxRetries THEN [value |-> 0, dials |-> retry]
            ELSE LET o == attempts[retry + 1]
                 IN IF o \in {"dialerr", "readerr"}
                    THEN IF retry < MaxRetries - 1 THEN From(retry + 1)
                         ELSE [value |-> 0, dials |-> retry + 1]
                    ELSE IF o = "nodata" THEN From(retry + 1)
                    ELSE [value |-> data, dials |-> retry + 1]
    IN From(0)

\* getMpvPositionWithRetry and getMpvDurationWithRetry, the same loop for two
\* properties: attempts[i] is what attempt i meets (the dial fails; the
\* write, read or unmarshal fails; the reply carries no number; the reply
\* carries the number data). The result is the value returned and the number
\* of dials made.
getMpvPropertyWithRetry(attempts, data) ==
    LET RECURSIVE From(_)
        From(retry) ==
            IF retry >= RetryLimit THEN [value |-> 0, dials |-> retry]
            ELSE LET o == attempts[retry + 1]
                 IN IF o \in {"dialerr", "readerr"}
                    THEN IF retry < RetryLimit - 1 THEN From(retry + 1)
                         ELSE [value |-> 0, dials |-> retry + 1]
                    ELSE IF o = "nodata" THEN From(retry + 1)
                    ELSE [value |-> data, dials |-> retry + 1]
    IN From(0)

\* checkMpvStatus: the number of dials its own loop makes for the pause
\* property
checkMpvStatusDials(attempts) ==
    LET answered == {i \in 1..MaxRetries : attempts[i] \notin {"dialerr", "readerr"}}
    IN IF answered = {} THEN MaxRetries ELSE CHOOSE i \in answered : \A j \in answered : i <= j

\* one status poll, on every combination of what the attempts of its three
\* queries meet; the position and duration queries are made once the pause
\* property was answered
QueryStatus ==
    /\ ~statusProbe.done
    /\ LET pauseDials == checkMpvStatusDials(statusProbe.attempts)
           answered == statusProbe.attempts[pauseDials] \notin {"dialerr", "readerr"}
           position == getMpvPropertyWithRetry(statusProbe.positionAttempts, statusProbe.position)
           duration == getMpvPropertyWithRetry(statusProbe.durationAttempts, statusProbe.duration)
       IN statusProbe' = [statusProbe EXCEPT
                            !.done = TRUE,
                            !.out = checkMpvStatus(statusProbe.attempts, position.value, duration.value),
                            !.dials = [pause |-> pauseDials,
                                       position |-> IF answered THEN position.dials ELSE 0,
                                       duration |-> IF answered THEN duration.dials ELSE 0]]
    /\ UNCHANGED <<uiVars, sessVars, envVars, completionProbe, storeVars>>

InitQuery ==
    /\ InitProgram
    /\ mode = "online"
    /\ inbox = SetToBag({LibrariesLoadedMsg})
    /\ \E attempts \in [1..MaxRetries -> {"dialerr", "readerr", "false"}],
          positionAttempts \in [1..MaxRetries -> {"dialerr", "nodata", "data"}],
          durationAttempts \in [1..MaxRetries -> {"readerr", "nodata", "data"}],
          position \in {0, 180} :
         statusProbe = [attempts |-> attempts, positionAttempts |-> positionAttempts,
                        durationAttempts |-> durationAttempts, position |-> position,
                        duration |-> 200, done |-> FALSE, out |-> StatusZero,
                        dials |-> [pause |-> 0, position |-> 0, duration |-> 0]]
    /\ completionProbe = [local |-> FALSE, authenticated |-> FALSE, finalPosition |-> 0,
                          finalDuration |-> 0, done |-> FALSE,
                          out |-> CompletionEffects(FALSE, FALSE, 0, 0)]
    /\ StoreIdle

SpecQuery == InitQuery /\ [][QueryStatus]_vars

\* ----------------------------------------------- construction: the mode
\* A client's mode is what its configuration holds: "online" is access token
\* and user id both set, "offline" neither, "tokenOnly" the token without
\* the user id.

\* BuildAndConnect: connects is TestConnection; session is the session file
\* LoadSession finds (none, JSON with token and user id, JSON with the token
\* alone, the old format of a bare token, for which the user id is fetched
\* and the session saved); valid is the server accepting the token;
\* quickConnect is AuthenticateWithQuickConnect succeeding
BuildAndConnect(connects, session, valid, quickConnect) ==
    IF ~connects THEN [client |-> "none", err |-> "connect"]
    ELSE IF session # "none" /\ valid
    THEN [client |-> IF session = "tokenOnly" THEN "tokenOnly" ELSE "online", err |-> "none"]
    ELSE IF quickConnect THEN [client |-> "online", err |-> "none"]
    ELSE [client |-> "none", err |-> "auth"]

\* every client ConnectFromConfig returns, over a downloads directory with or
\* without a file; the server answers at the start exactly when the online
\* path succeeded
InitMode ==
    /\ m = InitialModel
    /\ stopped = FALSE
    /\ inbox = SetToBag({LibrariesLoadedMsg})
    /\ pollTimers = 1
    /\ SessionsIdle
    /\ ProbeIdle
    /\ \E present \in SUBSET {CanonicalPath(EpisodeItem)} :
         /\ files = [path \in present |-> 1]
         /\ dirs = DirsFor({<<>>, ConfigHome}, present)
    /\ \E connects \in BOOLEAN, session \in {"none", "both", "tokenOnly", "old"},
          valid \in BOOLEAN, quickConnect \in BOOLEAN :
         LET built == BuildAndConnect(connects, session, valid, quickConnect)
             client == IF built.err = "none" THEN built
                       ELSE CreateOfflineClient(FALSE, DiscoverOfflineContent(DOMAIN files))
         IN /\ client.err = "none"
            /\ mode = client.client
            /\ serverUp = (built.err = "none")
    /\ connectProbe = Idle.connectProbe
    /\ dl = Idle.dl
    /\ requests = Idle.requests
    /\ pathProbe = Idle.pathProbe
    /\ called = Idle.called

\* browse, play, download and remove on a constructed client
SpecMode ==
    InitMode /\ [][Browse \/ BrowseDetails \/ Play \/ ToggleWatched \/ DownloadCmd
                   \/ RemoveDownload]_vars

\* ------------------------------------------- DownloadVideo, two at a time
\* Two downloadVideo commands of the UI run DownloadVideo for the same item
\* in goroutines of their own. Here a file's content is the set of the
\* chunks of the body it holds (the whole body is 1..MaxChunks) and dl[p] is
\* the call of downloader p: where DownloadVideo stands, how many chunks p
\* has written (the offset of its descriptor), where the file p has open now
\* lies (at the temp path, at the final path after a rename, or nowhere
\* after a remove or a replacing rename), and whether p's temp file was at
\* any time open in the other call too. Files behave as on POSIX systems:
\* os.Create of an existing file truncates it, a descriptor follows its file
\* through a rename.
Downloaders == {"first", "second"}

\* outFile.Write with the chunk lost
WriteChunkLost(content, chunk) == content

\* outFile.Write at the descriptor's offset
WriteChunk(content, chunk) == content \cup {chunk}

\* DownloadVideo up to the response: the guards of DownloadStart, then
\* client.http.Do and the status check
DownloadVideoBegin(p) ==
    /\ dl[p].call.pc = "idle"
    /\ \E ok \in BOOLEAN :
         LET start == DownloadStart(IsAuthenticated, files, EpisodeItem)
         IN /\ dl' = [dl EXCEPT ![p].call =
                        IF start.pc = "done" THEN start
                        ELSE IF ok THEN [start EXCEPT !.pc = "create"]
                        ELSE Fail(EpisodeItem)]
            /\ requests' = IF start.pc = "done" THEN requests
                           ELSE [requests EXCEPT !.sent = @ \cup {"Download.DownloadVideo"}]
    /\ dirs' = BuildVideoPathDirs(dirs, EpisodeItem)
    /\ UNCHANGED <<files, called>>
    /\ StoreFrame

\* os.Create(tempPath)
DownloadVideoCreate(p) ==
    /\ dl[p].call.pc = "create"
    /\ LET temp == TempPath(EpisodeItem)
           others == {q \in Downloaders \ {p} : dl[q].open = "temp"}
       IN /\ files' = [f \in DOMAIN files \cup {temp} |-> IF f = temp THEN {} ELSE files[f]]
          /\ dl' = [q \in Downloaders |->
                      IF q = p THEN [dl[p] EXCEPT !.call.pc = "copy", !.open = "temp",
                                                  !.shared = (others # {})]
                      ELSE IF q \in others THEN [dl[q] EXCEPT !.shared = TRUE]
                      ELSE dl[q]]
    /\ UNCHANGED <<dirs, requests, called>>
    /\ StoreFrame

\* one round of the copy loop: a chunk written, the end of the body, or a
\* read or write error followed by os.Remove(tempPath)
DownloadVideoCopy(p) ==
    /\ dl[p].call.pc = "copy"
    /\ LET temp == TempPath(EpisodeItem)
           path == IF dl[p].open = "temp" THEN temp ELSE CanonicalPath(EpisodeItem)
       IN \/ /\ dl[p].written < MaxChunks
             /\ files' = IF dl[p].open = "gone" THEN files
                         ELSE [files EXCEPT ![path] = WriteChunk(@, dl[p].written + 1)]
             /\ dl' = [dl EXCEPT ![p].written = @ + 1]
          \/ /\ dl[p].written = MaxChunks
             /\ dl' = [dl EXCEPT ![p].call.pc = "rename"]
             /\ UNCHANGED files
          \/ /\ files' = IF temp \in DOMAIN files THEN RemoveFile(files, temp) ELSE files
             /\ dl' = [q \in Downloaders |->
                         IF q = p THEN [dl[p] EXCEPT !.call = Fail(EpisodeItem), !.open = "none"]
                         ELSE IF dl[q].open = "temp" THEN [dl[q] EXCEPT !.open = "gone"]
                         ELSE dl[q]]
    /\ UNCHANGED <<dirs, requests, called>>
    /\ StoreFrame

\* outFile.Close and os.Rename(tempPath, filePath); when the temp file is not
\* there the rename fails and os.Remove(tempPath) finds nothing
DownloadVideoRename(p) ==
    /\ dl[p].call.pc = "rename"
    /\ IF TempPath(EpisodeItem) \in DOMAIN files
       THEN /\ files' = RenameToFinal(files, EpisodeItem)
            /\ dl' = [q \in Downloaders |->
                        IF q = p THEN [dl[p] EXCEPT !.call.pc = "done", !.call.result = "ok",
                                                    !.open = "none"]
                        ELSE IF dl[q].open = "temp" THEN [dl[q] EXCEPT !.open = "final"]
                        ELSE IF dl[q].open = "final" THEN [dl[q] EXCEPT !.open = "gone"]
                        ELSE dl[q]]
       ELSE /\ dl' = [dl EXCEPT ![p].call = Fail(EpisodeItem), ![p].open = "none"]
            /\ UNCHANGED files
    /\ UNCHANGED <<dirs, requests, called>>
    /\ StoreFrame

\* an online client, an empty downloads directory, one call per downloader
InitConcurrent ==
    /\ InitProgram
    /\ mode = "online"
    /\ inbox = SetToBag({LibrariesLoadedMsg})
    /\ ProbeIdle
    /\ files = Idle.files
    /\ dirs = {<<>>, ConfigHome}
    /\ dl = [p \in Downloaders |-> [call |-> Idle.dl, written |-> 0, open |-> "none", shared |-> FALSE]]
    /\ requests = Idle.requests
    /\ pathProbe = Idle.pathProbe
    /\ connectProbe = Idle.connectProbe
    /\ called = Idle.called

NextConcurrent ==
    \E p \in Downloaders :
        \/ DownloadVideoBegin(p)
        \/ DownloadVideoCreate(p)
        \/ DownloadVideoCopy(p)
        \/ DownloadVideoRename(p)

SpecConcurrent == InitConcurrent /\ [][NextConcurrent]_vars

\* ------------------------------------------- the final queries of a session
\* TrackerFinal with what it did kept: the session, the owner of the IPC
\* socket that getMpvPosition and getMpvDuration dialled, and the remote
\* calls and the message that followed from the answers
TrackerFinalQueries(s) ==
    /\ pc[s] = "final"
    /\ \E finalPosition \in Answers(Positions), finalDuration \in Answers(Durations) :
         LET e == CompletionEffects(isLocal[s], IsAuthenticated, finalPosition, finalDuration)
         IN /\ inbox' = IF e.videoCompleted THEN Send(inbox, VideoCompletedMsg) ELSE inbox
            /\ Call("TrackerFinal",
                    [session |-> s, answeredBy |-> socketOwner, finalPosition |-> finalPosition],
                    e)
    /\ pc' = [pc EXCEPT ![s] = "done"]
    /\ UNCHANGED <<m, stopped, pollTimers, isLocal, proc, rpc, runningMpvProcesses,
                   socketOwner, envVars, probeVars, files, dirs, dl, requests,
                   pathProbe, connectProbe>>

NextFinal ==
    \/ PlayItemCmd
    \/ \E s \in Sessions : PlayCleanup(s)
    \/ \E s \in Sessions : PlayLaunch(s)
    \/ \E s \in Sessions : TrackerStart(s)
    \/ \E s \in Sessions : TrackerRun(s)
    \/ \E s \in Sessions : PlayerExit(s)
    \/ \E s \in Sessions : TrackerExit(s)
    \/ \E s \in Sessions : TrackerFinalQueries(s)
    \/ ServerFlip

\* the playItem cmds and their tracking goroutines, without the progress
\* goroutines
SpecFinal == InitTrack /\ [][NextFinal]_vars

\* ------------------------------------------------- the status-poll chains
\* pending status-poll ticks plus poll results in flight, where the number of
\* chains is what is looked at
MaxChains == 2

\* Dispatch with the play commands bounded by the sessions alone and the
\* polls by MaxChains
DispatchChains(msg, base) ==
    LET r == Update(m, msg) IN
    /\ r.cmd.name = "play" => \E s \in Sessions : pc[s] = "idle"
    /\ r.cmd.name \in {"play", "progress"} => PollsTotal(base) < MaxChains
    /\ m' = r.m
    /\ stopped' = IF msg.type = "stopPlaybackMsg" /\ m.err = "nil" THEN TRUE
                  ELSE IF r.cmd.name = "play" THEN FALSE
                  ELSE stopped
    /\ pollTimers' = IF r.cmd.name \in {"progress", "play"} THEN pollTimers + 1 ELSE pollTimers
    /\ IF r.cmd.name = "play" THEN StartPlayItem ELSE pc' = pc
    /\ IF r.cmd.name \in {"none", "progress", "play"}
       THEN inbox' = base
       ELSE \E result \in CmdResults(r.cmd) : inbox' = Send(base, result)
    /\ UNCHANGED <<isLocal, proc, rpc, runningMpvProcesses, socketOwner, envVars, probeVars, storeVars>>

\* the user presses enter: selectItem opens the folder or plays the item
\* under the cursor
KeyPressChains ==
    /\ ResultsIn(inbox) < MaxInbox
    /\ DispatchChains(KeyMsg("enter", "nil"), inbox)

DeliverChains ==
    \E msg \in BagToSet(inbox) : DispatchChains(msg, inbox (-) SetToBag({msg}))

NextChains ==
    \/ KeyPressChains
    \/ DeliverChains
    \/ PollFire
    \/ \E s \in Sessions : PlayCleanup(s)
    \/ \E s \in Sessions : PlayLaunch(s)
    \/ \E s \in Sessions : TrackerStart(s)
    \/ \E s \in Sessions : TrackerRun(s)
    \/ \E s \in Sessions : PlayerExit(s)
    \/ \E s \in Sessions : TrackerExit(s)
    \/ \E s \in Sessions : TrackerFinal(s)

\* the event loop of an online client whose server answers, with the key
\* that starts a playback
SpecChains == InitTrack /\ [][NextChains]_vars

\* ------------------------------------------------ the cursor and the details
\* command results in flight to the event loop, where their order is what is
\* looked at
MaxInFlight == 2

\* the user presses a key while results of earlier commands are in flight
KeyPressCursor ==
    \E k \in Keys :
      \E landing \in (IF k = "j" THEN CursorKinds \ {"none"} ELSE {"nil"}) :
        /\ ResultsIn(inbox) < MaxInFlight
        /\ DispatchChains(KeyMsg(k, landing), inbox)

\* the event loop of a client of either mode with the commands it starts;
\* the goroutines of playItem and the poll ticks are left out
SpecCursor == Init /\ [][KeyPressCursor \/ DeliverChains \/ ServerFlip]_vars

\* ------------------------------------------------------ path resolver calls
\* a name one character longer than the sanitizer keeps, with a forbidden
\* character in it
LongName == [i \in 1..(SanitizeLimit + 1) |-> IF i = 2 THEN ":" ELSE "a"]

\* BuildVideoPath alone, on every combination of the metadata it reads
InitPath ==
    /\ InitProgram
    /\ mode = "online"
    /\ inbox = SetToBag({LibrariesLoadedMsg})
    /\ ProbeIdle
    /\ files = Idle.files
    /\ dirs = {<<>>, ConfigHome}
    /\ dl = Idle.dl
    /\ requests = Idle.requests
    /\ connectProbe = Idle.connectProbe
    /\ called = Idle.called
    /\ \E type \in {"Episode", "Movie", "Video"},
          seriesName \in {<<>>, <<"s">>, <<" ">>, <<".", ".">>, LongName},
          name \in {<<"t">>, <<" ", "a", "/", "b", "?", " ">>, LongName,
                    [i \in 1..(SanitizeLimit + 1) |-> IF i = SanitizeLimit THEN " " ELSE "b"],
                    <<"?", "a", " ", "-", " ", "b">>, <<"b", " ", "(", "2", "0", "4", "9", ")">>},
          season \in {0, 1, 12, 100}, episode \in {0, 3, 100}, year \in {0, 1999} :
         pathProbe = [Idle.pathProbe EXCEPT
                        !.item = Item(type, seriesName, name, season, episode, year)]

\* the call: the path below the downloads directory, and the directories
\* BuildVideoPath creates on the way
ResolvePath ==
    /\ ~pathProbe.done
    /\ pathProbe' = [pathProbe EXCEPT !.done = TRUE, !.out = RelativePath(pathProbe.item)]
    /\ dirs' = BuildVideoPathDirs(dirs, pathProbe.item)
    /\ UNCHANGED <<uiVars, sessVars, envVars, probeVars, files, dl, requests, connectProbe, called>>

\* the scan of a downloads directory that holds the resolved file and nothing
\* else: DiscoverOfflineContent's walk finds it when it lies below the
\* downloads directory and parses its relative path; convertToItems names the
\* entry by the slug of the parsed name
ScanPath ==
    /\ pathProbe.done
    /\ ~pathProbe.scanned
    /\ LET path == CanonicalPath(pathProbe.item)
           found == DiscoverOfflineContent({path})
           content == parseOfflineContent(SubSeq(path, Len(DownloadsDir) + 1, Len(path)))
       IN pathProbe' = [pathProbe EXCEPT
                          !.scanned = TRUE,
                          !.parsed = IF found = {} THEN <<>> ELSE <<content>>,
                          !.id = IF found = {} THEN <<>> ELSE sanitizeID(content.name)]
    /\ UNCHANGED <<uiVars, sessVars, envVars, probeVars, files, dirs, dl, requests, connectProbe, called>>

SpecPath == InitPath /\ [][ResolvePath \/ ScanPath]_vars

\* ------------------------------------------------------------ properties
\* the event loop handles msg in this step
Handles(msg) == msg \in BagToSet(inbox) /\ inbox' = inbox (-) SetToBag({msg})
\* the playback state the UI shows is cleared
IdleState(mm) ==
    /\ ~mm.isVideoPlaying
    /\ mm.currentPlayingItem = "nil"
    /\ mm.currentPlayPosition = 0
    /\ mm.currentPlayDuration = 0

\* C1: at no time are two player processes launched by the client alive
\* together, whatever the sequence and interleaving of play commands.
C1_AtMostOnePlayerAlive == Cardinality({s \in Sessions : Alive(s)}) <= 1

\* C2: after every status-poll result the event loop handles (outside the
\* error state) while a session's player is launching or alive, another status
\* poll is scheduled.
C2_PollChainKeptAlive ==
    [][\A msg \in BagToSet(inbox) :
         (/\ IsProgress(msg)
          /\ Handles(msg)
          /\ m.err = "nil"
          /\ \E s \in Sessions : Launching(s) \/ Alive(s))
         => pollTimers' = pollTimers + 1]_vars

C4_NoReportAfterExitObserved ==
    [][\A s \in Sessions :
         /\ (pc[s] = "final" /\ pc'[s] = "done") => proc[s] = "exited"
         /\ (rpc[s] = "report" /\ rpc'[s] = "select") => ~DoneClosed(s)]_vars

\* C5: the status poll reports playing=true exactly when the pause reply is
\* explicitly false, or the pause reply holds no boolean but a non-zero
\* position or duration was obtained; a pause reply of true is reported as
\* playing=false.
C5_PlayingIffNotPaused ==
    statusProbe.done =>
      LET answered == {i \in 1..MaxRetries : statusProbe.attempts[i] \notin {"dialerr", "readerr"}}
          first == CHOOSE i \in answered : \A j \in answered : i <= j
          reply == IF answered = {} THEN "none" ELSE statusProbe.attempts[first]
          got == statusProbe.position > 0 \/ statusProbe.duration > 0
      IN statusProbe.out.isPlaying = (reply = "false" \/ (reply = "nonbool" /\ got))

\* C6: the first poll result that reports not-playing with position and
\* duration zero clears the playback state: handling it leaves playing=false,
\* no now-playing item, position and duration 0.
C6_ClearedOnIdlePoll ==
    [][Handles(ProgressMsg(0, 0, FALSE)) => IdleState(m')]_vars

\* C7: after a stop command succeeded the playback state is idle and stays
\* idle until the next play command is issued, also when a status-poll result
\* is handled after the stop.
C7_IdleAfterStop == stopped => IdleState(m)

\* C8, as the code has it: a status poll that finds the IPC endpoint
\* unreachable raises no error and reports position 0, duration 0,
\* playing=false; a player command raises an error to the UI only when the
\* endpoint is unreachable and is acknowledged only when it is reachable; and
\* the UI enters the error state when it handles that error.
C8_PollsAbsorbCommandsRaise ==
    [][/\ (pollTimers' < pollTimers /\ ~Reachable)
            => inbox' = inbox (+) SetToBag({ProgressMsg(0, 0, FALSE)})
       /\ CopiesIn(ErrMsg("ipc"), inbox') > CopiesIn(ErrMsg("ipc"), inbox) => ~Reachable
       /\ CopiesIn(IpcAck("stopPlayback"), inbox') > CopiesIn(IpcAck("stopPlayback"), inbox)
            => Reachable
       /\ (Handles(ErrMsg("ipc")) /\ m.err = "nil") => m'.err = "ipc"]_vars

\* C8, its case: a player command was issued after the player had exited and
\* the UI is in the error state
C8_Witness ==
    /\ m.err = "ipc"
    /\ ~Reachable
    /\ \E s \in Sessions : proc[s] = "exited"

\* C8 as stated: an unreachable IPC endpoint never raises an error to the UI,
\* neither in flight to the event loop nor as its error state.
C8_NoErrorFromIpc ==
    /\ CopiesIn(ErrMsg("ipc"), inbox) = 0
    /\ m.err # "ipc"

\* C9: after an error was surfaced the event loop still handles navigation,
\* playback and download events.
C9_ErrorsNotFatal ==
    (m.err # "nil" /\ m.cursor \in Items /\ m.currentDetails # "nil") =>
      /\ Update(m, KeyMsg("p", "nil")).cmd.name \in {"play", "togglePause"}
      /\ Update(m, KeyMsg("d", "nil")).cmd.name = "downloadVideo"
      /\ Update(m, KeyMsg("j", "vfolder")).m.cursor = "vfolder"

\* C10: a remote report that fails (playback-started, progress, the reports
\* of the completion handling) leaves the session on its way: the tracking
\* goroutine goes on to launch the player, no player process changes state,
\* no message is sent to the event loop and the UI's state is untouched.
C10_ReportFailuresSwallowed ==
    [][\A s \in Sessions :
         (~RemoteOk /\ ~isLocal[s]) =>
           /\ (pc[s] = "start" /\ pc'[s] # "start") =>
                 pc'[s] = "run" /\ proc' = proc /\ inbox' = inbox /\ m' = m
           /\ (rpc[s] = "report" /\ rpc'[s] # "report") =>
                 pc' = pc /\ proc' = proc /\ inbox' = inbox /\ m' = m
           /\ (pc[s] = "final" /\ pc'[s] # "final") =>
                 pc'[s] = "done" /\ proc' = proc /\ inbox' = inbox /\ m' = m]_vars

\* C10, its case: the server is down, the player of a remote session was
\* launched all the same and its progress goroutine is about to report
C10_Witness ==
    \E s \in Sessions :
      /\ ~RemoteOk
      /\ ~isLocal[s]
      /\ Alive(s)
      /\ rpc[s] = "report"

\* C11: when the online path of the construction fails, an offline client is
\* returned exactly when the scan of the downloads directory succeeds with
\* at least one entry (a regular file below the downloads directory whose
\* name ends in .mkv); with no entry the construction fails for lack of
\* content and no client is returned.
C11_OfflineIffCatalogNonEmpty ==
    (connectProbe.done /\ connectProbe.urlSet /\ connectProbe.online # "ok") =>
      LET entry(f) == /\ Len(f) > Len(DownloadsDir)
                      /\ SubSeq(f, 1, Len(DownloadsDir)) = DownloadsDir
                      /\ Len(f[Len(f)]) >= 4
                      /\ SubSeq(f[Len(f)], Len(f[Len(f)]) - 3, Len(f[Len(f)])) = <<".", "m", "k", "v">>
          scanned == ~connectProbe.scanFails /\ \E f \in DOMAIN files : entry(f)
      IN /\ connectProbe.out.client = (IF scanned THEN "offline" ELSE "none")
         /\ (~connectProbe.scanFails /\ ~scanned) => connectProbe.out.err = "nocontent"

\* C11, its case: the online path failed, the downloads directory holds only
\* the temp file of an unfinished download, and no client was returned
C11_Witness ==
    /\ connectProbe.done
    /\ connectProbe.urlSet
    /\ connectProbe.online = "authFail"
    /\ ~connectProbe.scanFails
    /\ DOMAIN files = {TempPath(MovieItem)}
    /\ connectProbe.out = [client |-> "none", err |-> "nocontent"]

\* C12: on an offline client no browse, play or download operation sends a
\* remote request of any kind.
C12_OfflineSendsNothing == mode = "offline" => requests.sent = {}

\* C12, its case: an offline client has browsed, opened details, played,
\* toggled the watched state and asked for a download
C12_Witness ==
    /\ mode = "offline"
    /\ requests.ops = {"browse", "details", "play", "watched", "download"}

\* C13: a DownloadVideo that returns success leaves the item downloaded
\* (IsDownloaded is true), and a RemoveDownload that returns success leaves
\* it not downloaded (IsDownloaded is false).
C13_DownloadedAfterDownloadGoneAfterRemove ==
    [][/\ (dl.pc = "rename" /\ dl'.pc = "done" /\ dl'.result = "ok")
           => IsDownloaded(files', dl'.item)
       /\ (called'.n # called.n /\ called'.op = "RemoveDownload" /\ called'.err = "none")
           => ~IsDownloaded(files', called'.item)]_vars

\* C13, its case: one item was removed with success and is not downloaded,
\* the download of the other has just succeeded and it is downloaded
C13_Witness ==
    /\ dl.pc = "done"
    /\ dl.result = "ok"
    /\ IsDownloaded(files, dl.item)
    /\ called.op = "RemoveDownload"
    /\ called.err = "none"
    /\ called.item # dl.item
    /\ ~IsDownloaded(files, called.item)

\* C14: when DownloadVideo fails after it created its temp file (read
\* error, write error or failed rename), then on return the temp file is
\* gone, no file is at the canonical path and the item is not downloaded.
C14_NothingLeftAfterFailure ==
    [][(dl.pc \in {"copy", "rename"} /\ dl'.pc = "done" /\ dl'.result = "DownloadFailed")
        => /\ TempPath(dl'.item) \notin DOMAIN files'
           /\ CanonicalPath(dl'.item) \notin DOMAIN files'
           /\ ~IsDownloaded(files', dl'.item)]_vars

\* C15 as stated: DownloadVideo on an item that is already downloaded fails
\* with AlreadyExists, sends no HTTP request, creates no temp file and
\* leaves the existing file as it is.
C15_AlreadyExists ==
    [][(dl.pc = "idle" /\ dl'.pc # "idle" /\ IsDownloaded(files, dl'.item))
        => /\ dl'.pc = "done"
           /\ dl'.result = "AlreadyExists"
           /\ requests' = requests
           /\ files' = files]_vars

\* C15: DownloadVideo on an item that is already downloaded ends at once,
\* with AlreadyExists on an authenticated client and with NotAuthenticated on
\* one that is not; in both cases it sends no HTTP request, creates no temp
\* file and leaves the existing file as it is.
C15_AlreadyExistsWhenAuthenticated ==
    [][(dl.pc = "idle" /\ dl'.pc # "idle" /\ IsDownloaded(files, dl'.item))
        => /\ dl'.pc = "done"
           /\ dl'.result = (IF mode = "online" THEN "AlreadyExists" ELSE "NotAuthenticated")
           /\ requests' = requests
           /\ files' = files]_vars

\* C15, its case: an authenticated client was refused the download of an
\* item that is there, and no request has ever been sent
C15_Witness ==
    /\ mode = "online"
    /\ dl.pc = "done"
    /\ dl.result = "AlreadyExists"
    /\ IsDownloaded(files, dl.item)
    /\ TempPath(dl.item) \notin DOMAIN files
    /\ requests.sent = {}

\* C16: while a DownloadVideo is under way, up to the rename of its temp
\* file, neither IsDownloaded nor ListDownloads nor DiscoverOfflineContent
\* reports the item, and no scan ever returns a .tmp file.
C16_HiddenUntilRenamed ==
    /\ InProgress =>
         /\ ~IsDownloaded(files, dl.item)
         /\ RelativePath(dl.item) \notin ListDownloads(files)
         /\ CanonicalPath(dl.item) \notin DiscoverOfflineContent(DOMAIN files)
    /\ \A f \in ListDownloads(files) \cup DiscoverOfflineContent(DOMAIN files) :
         ~(Len(f[Len(f)]) >= 4 /\ SubSeq(f[Len(f)], Len(f[Len(f)]) - 3, Len(f[Len(f)])) = <<".", "t", "m", "p">>)

\* C16, its case: the whole body is in the temp file, the rename is still to
\* come, the other item is listed and a scan has been made
C16_Witness ==
    /\ dl.pc = "rename"
    /\ TempPath(dl.item) \in DOMAIN files
    /\ files[TempPath(dl.item)] >= 1
    /\ ListDownloads(files) # {}
    /\ called.op = "ListDownloads"

\* C17: RemoveDownload deletes, beside the item's file, only directories
\* strictly below the downloads directory: never the downloads directory
\* itself nor a directory above it.
C17_CleanupBelowDownloadsDir ==
    [][/\ \A d \in dirs \ dirs' : Below(d, DownloadsDir)
       /\ (called'.n # called.n /\ called'.op = "RemoveDownload")
           => DOMAIN files \ DOMAIN files' \subseteq {CanonicalPath(called'.item)}]_vars

\* C18: BuildVideoPath creates, changes and deletes nothing, so an
\* IsDownloaded call and a RemoveDownload that fails with NotFound leave the
\* files and directories as they were.
C18_ResolveLeavesTreeAlone ==
    [][(/\ called'.n # called.n
        /\ \/ called'.op = "IsDownloaded"
           \/ called'.op = "RemoveDownload" /\ called'.err = "NotFound")
        => files' = files /\ dirs' = dirs]_vars

C20_SegmentsCleanAndShort ==
    pathProbe.done =>
      \A k \in 1..Len(pathProbe.out) :
        /\ \A i \in 1..Len(pathProbe.out[k]) :
             pathProbe.out[k][i] \notin {"<", ">", ":", "\"", "/", "\\", "|", "?", "*"}
        /\ Len(pathProbe.out[k]) <= 100

\* C20: every segment of the resolved path contains none of
\* < > : " / \ | ? *; every directory segment is at most 100 characters
\* long; the file name is the title cut to at most 100 characters plus the
\* episode prefix or year suffix and the extension, which the cut does not
\* count.
C20_SegmentsCleanTitleShort ==
    pathProbe.done =>
      LET out == pathProbe.out
          item == pathProbe.item
          numbered == item.type = "Episode" /\ item.seriesName # <<>>
                      /\ item.season > 0 /\ item.episode > 0
          dated == item.type = "Movie" /\ item.year > 0
          added == IF numbered
                   THEN Len(<<"S">> \o Decimal02(item.season) \o <<"E">>
                            \o Decimal02(item.episode) \o <<" ", "-", " ">>) + 4
                   ELSE IF dated THEN Len(<<" ", "(">> \o Decimal(item.year) \o <<")">>) + 4
                   ELSE 4
      IN /\ \A k \in 1..Len(out) : \A i \in 1..Len(out[k]) :
              out[k][i] \notin {"<", ">", ":", "\"", "/", "\\", "|", "?", "*"}
         /\ \A k \in 1..(Len(out) - 1) : Len(out[k]) <= 100
         /\ Len(out[Len(out)]) <= 100 + added

\* C20, its case: a numbered episode whose series name and title are both
\* longer than 100 characters and hold a forbidden character
C20_Witness ==
    /\ pathProbe.done
    /\ pathProbe.item = Item("Episode", LongName, LongName, 12, 3, 0)
    /\ Len(pathProbe.out[1]) = 100
    /\ Len(pathProbe.out[3]) = 113

\* C21: the file a Movie item resolves to, scanned alone, gives exactly one
\* entry: a Movie with the sanitized title and the item's year (0 when the
\* item has none), whatever parenthesised number the title itself holds
C21_MovieRoundTrip ==
    (pathProbe.scanned /\ pathProbe.item.type = "Movie") =>
      pathProbe.parsed = <<[type |-> "Movie", name |-> sanitize(pathProbe.item.name),
                            seriesName |-> <<>>, season |-> 0, episode |-> 0,
                            year |-> pathProbe.item.year]>>

\* C22: the file an Episode item with a proper series name and positive
\* season and episode numbers resolves to parses as an Episode with the
\* sanitized series name, the same numbers and the sanitized title
C22_EpisodeRoundTrip ==
    (/\ pathProbe.scanned
     /\ pathProbe.item.type = "Episode"
     /\ sanitize(pathProbe.item.seriesName) \notin {<<>>, <<".", ".">>}
     /\ pathProbe.item.season > 0
     /\ pathProbe.item.episode > 0) =>
      pathProbe.parsed = <<[type |-> "Episode", name |-> sanitize(pathProbe.item.name),
                            seriesName |-> sanitize(pathProbe.item.seriesName),
                            season |-> pathProbe.item.season,
                            episode |-> pathProbe.item.episode, year |-> 0]>>


\* C24: the slug of a parsed name is a fixed point of sanitizeID, holds only
\* alphanumerics and single "-" between them, and neither starts nor ends
\* with "-"
C24_SlugIdempotentAndClean ==
    (pathProbe.scanned /\ pathProbe.parsed # <<>>) =>
      LET id == pathProbe.id
          AlphaNum == {"a", "b", "c", "d", "e", "f", "g", "h", "i", "j", "k", "l", "m",
                       "n", "o", "p", "q", "r", "s", "t", "u", "v", "w", "x", "y", "z",
                       "A", "B", "C", "D", "E", "F", "G", "H", "I", "J", "K", "L", "M",
                       "N", "O", "P", "Q", "R", "S", "T", "U", "V", "W", "X", "Y", "Z",
                       "0", "1", "2", "3", "4", "5", "6", "7", "8", "9"}
      IN /\ id = sanitizeID(pathProbe.parsed[1].name)
         /\ sanitizeID(id) = id
         /\ \A i \in 1..Len(id) :
              \/ id[i] \in AlphaNum
              \/ id[i] = "-" /\ 1 < i /\ i < Len(id) /\ id[i - 1] \in AlphaNum /\ id[i + 1] \in AlphaNum

\* a title with a character the resolver replaces at its start and " - "
\* inside: the slug drops the first and joins the rest with one "-"
C24_Witness ==
    /\ pathProbe.scanned
    /\ pathProbe.item = Item("Movie", <<>>, <<"?", "a", " ", "-", " ", "b">>, 0, 0, 0)
    /\ pathProbe.parsed[1].name = <<"_", "a", " ", "-", " ", "b">>
    /\ pathProbe.id = <<"a", "-", "b">>


\* C23: the catalog holds one leaf entry for every file the scan classifies
\* Movie or Other and one folder entry for every series name with an
\* episode, no other entry; the episodes of a series are the files the scan
\* classifies Episode of that series, each once, so each episode file is
\* returned for its own series name and for no other
C23_EveryFileOnce ==
    LET scanned == DiscoverOfflineContent(DOMAIN files)
        Content(f) == parseOfflineContent(SubSeq(f, Len(DownloadsDir) + 1, Len(f)))
        episodeFiles == {f \in scanned : Content(f).type = "Episode"}
        Count(bag, entries) == BagCardinality([e \in entries |-> bag[e]])
    IN /\ called.op = "DiscoverOfflineContent" =>
            LET items == called.item
                Leaves(f) == {e \in DOMAIN items :
                                /\ ~e.isFolder
                                /\ e.name = Content(f).name
                                /\ e.year = Content(f).year
                                /\ e.type = (IF Content(f).type = "Movie" THEN "Movie" ELSE "Video")}
            IN /\ \A f \in scanned \ episodeFiles :
                    /\ Cardinality(Leaves(f)) = 1
                    /\ Count(items, Leaves(f))
                         = Cardinality({g \in scanned \ episodeFiles : Leaves(g) = Leaves(f)})
               /\ Count(items, {e \in DOMAIN items : ~e.isFolder}) = Cardinality(scanned \ episodeFiles)
               /\ \A f \in episodeFiles :
                    Count(items, {e \in DOMAIN items : e.isFolder /\ e.name = Content(f).seriesName}) = 1
               /\ \A e \in DOMAIN items :
                    e.isFolder => \E f \in episodeFiles : Content(f).seriesName = e.name
       /\ called.op = "GetOfflineEpisodes" =>
            LET seriesName == called.item.seriesName
                episodes == called.item.episodes
                mine == {f \in episodeFiles : Content(f).seriesName = seriesName}
            IN /\ BagCardinality(episodes) = Cardinality(mine)
               /\ \A e \in DOMAIN episodes : e.type = "Episode" /\ e.seriesName = seriesName
               /\ \A f \in mine :
                    \E e \in DOMAIN episodes :
                      /\ e.name = Content(f).name
                      /\ e.season = Content(f).season
                      /\ e.episode = Content(f).episode

\* every sample file is there: the catalog has three folder entries and four
\* leaf entries, equal two by two
C23_Witness ==
    /\ called.op = "DiscoverOfflineContent"
    /\ Cardinality(DOMAIN files) = 9
    /\ BagCardinality(called.item) = 7
    /\ Cardinality(DOMAIN called.item) = 5



\* C25: once the client has exited, no player it launched is alive
C25_NoPlayerOutlivesClient ==
    (\A s \in Sessions : pc[s] = "exited") => \A s \in Sessions : ~Alive(s)


\* C26: the target playItem hands to the player is the item's local path
\* exactly when the file is there, the item's remote URL otherwise; the
\* progress goroutine, started after ReportStart, runs only for a session
\* whose target is remote
C26_LocalTargetIffCopy ==
    [][\A s \in Sessions :
         /\ (pc[s] = "resolve" /\ pc'[s] = "start") =>
              /\ called'.err[Len(called'.err)].value
                   = (IF IsDownloaded(files, called'.item.item)
                      THEN CanonicalPath(called'.item.item)
                      ELSE <<"Items", called'.item.item, "Download">>)
              /\ isLocal'[s] = IsDownloaded(files, called'.item.item)
         /\ (rpc[s] = "off" /\ rpc'[s] = "select") => ~isLocal[s]]_vars


\* C27, as the code has it: the position and the duration query dial at most
\* twice, the pause query of the status poll at most three times; a query
\* whose attempts all fail yields 0, and a poll whose pause attempts all
\* fail yields position 0, duration 0, playing=false
C27_RetriesBounded ==
    statusProbe.done =>
      LET Failed(attempts, n) == \A i \in 1..n : attempts[i] \in {"dialerr", "readerr", "nodata"}
      IN /\ statusProbe.dials.pause <= MaxRetries
         /\ statusProbe.dials.position <= RetryLimit
         /\ statusProbe.dials.duration <= RetryLimit
         /\ Failed(statusProbe.attempts, MaxRetries) => statusProbe.out = StatusZero
         /\ Failed(statusProbe.positionAttempts, RetryLimit) => statusProbe.out.position = 0
         /\ Failed(statusProbe.durationAttempts, RetryLimit) => statusProbe.out.duration = 0

\* the pause property is answered at the third dial, after both attempts of
\* the position query have failed
C27_Witness ==
    /\ statusProbe.done
    /\ statusProbe.attempts = <<"dialerr", "dialerr", "false">>
    /\ statusProbe.positionAttempts = <<"dialerr", "dialerr", "data">>
    /\ statusProbe.durationAttempts[1] = "data"
    /\ statusProbe.position = 180
    /\ statusProbe.dials = [pause |-> 3, position |-> 2, duration |-> 1]
    /\ statusProbe.out = [position |-> 0, duration |-> 200, isPlaying |-> TRUE]

\* C27, as stated: no query dials more than twice
C27_AtMostTwoAttempts ==
    statusProbe.done =>
      /\ statusProbe.dials.pause <= 2
      /\ statusProbe.dials.position <= 2
      /\ statusProbe.dials.duration <= 2


\* C28: a constructed client is online (access token and user id both set)
\* or offline (neither set), one of the two
C28_OnlineOrOffline == IsAuthenticated # IsOfflineMode


\* C29: the player's arguments hold a start position exactly when the start
\* offset is above 0 ticks, once, before the target, and what it shows is
\* offset / 10,000,000 seconds to the nearest hundredth; the target is the
\* last argument
C29_StartArgument ==
    called.op = "playItem" =>
      LET args == called.err
          ticks == called.item.startPositionTicks
          starts == {i \in 1..Len(args) : args[i].name = "--start"}
      IN /\ (starts # {}) = (ticks > 0)
         /\ Cardinality(starts) <= 1
         /\ \A i \in starts :
              /\ i < Len(args)
              /\ 2 * (100000 * args[i].value - ticks) <= 100000
              /\ 2 * (ticks - 100000 * args[i].value) <= 100000
         /\ args[Len(args)].name = "target"
         /\ \A i \in 1..(Len(args) - 1) : args[i].name # "target"

\* a resume at 1.2345678 s: "--start=1.23", then the target
C29_Witness ==
    /\ called.op = "playItem"
    /\ called.item.startPositionTicks = 12345678
    /\ Len(called.err) = 4
    /\ called.err[3] = [name |-> "--start", value |-> 123]
    /\ called.err[4].name = "target"


\* C30: nothing keeps two DownloadVideo calls for one item apart. A call
\* whose temp file was never open in the other call leaves the whole body at
\* the final path; with both calls in the same temp file the final path can
\* hold less than the body (C30_Witness)
C30_IncompleteOnlyWhenShared ==
    LET path == CanonicalPath(EpisodeItem)
    IN (path \in DOMAIN files /\ files[path] # 1..MaxChunks) =>
         \E p \in Downloaders : dl[p].shared

\* both calls passed the check for an existing file and wrote to the same
\* temp file; one returned success, the other failed, and the file at the
\* final path, reported as downloaded, holds less than the body for good
C30_Witness ==
    /\ \A p \in Downloaders : dl[p].call.pc = "done" /\ dl[p].shared
    /\ \E p \in Downloaders : dl[p].call.result = "ok"
    /\ IsDownloaded(files, EpisodeItem)
    /\ files[CanonicalPath(EpisodeItem)] # 1..MaxChunks


\* C31: during a download progressCallback is called once after each chunk
\* written, with the size of the temp file so far, which grows from call to
\* call; the file a successful download places at the canonical path has the
\* size of the last call; a download started after a failed one begins with
\* an empty temp file and an empty log, whatever the failed one left behind.
C31_ProgressFollowsFile ==
    /\ [](dl.pc \in {"copy", "rename"} =>
            /\ TempPath(dl.item) \in DOMAIN files
            /\ \A i \in 1..Len(dl.progress) :
                 dl.progress[i] > (IF i = 1 THEN 0 ELSE dl.progress[i - 1])
            /\ files[TempPath(dl.item)] =
                 (IF dl.progress = <<>> THEN 0 ELSE dl.progress[Len(dl.progress)]))
    /\ [][/\ (dl.pc = "copy" /\ dl'.pc = "copy") =>
               IF files'[TempPath(dl.item)] # files[TempPath(dl.item)]
               THEN /\ files'[TempPath(dl.item)] > files[TempPath(dl.item)]
                    /\ dl'.progress = Append(dl.progress, files'[TempPath(dl.item)])
               ELSE dl'.progress = dl.progress
          /\ (dl.pc = "create" /\ dl'.pc = "copy") =>
               /\ files'[TempPath(dl'.item)] = 0
               /\ dl'.progress = <<>>
          /\ (dl.pc = "rename" /\ dl'.pc = "done" /\ dl'.result = "ok") =>
               /\ dl'.progress = dl.progress
               /\ files'[CanonicalPath(dl'.item)] =
                    (IF dl.progress = <<>> THEN 0 ELSE dl.progress[Len(dl.progress)])]_vars

\* a download has succeeded after two chunks
C31_Witness ==
    /\ dl.pc = "done"
    /\ dl.result = "ok"
    /\ Len(dl.progress) = MaxChunks
    /\ IsDownloaded(files, dl.item)
    /\ files[CanonicalPath(dl.item)] = dl.progress[Len(dl.progress)]


\* C32: a lookup by the id of a leaf entry the catalog lists for a file
\* succeeds and returns that file's path and what the scan makes of that
\* file, so that no two files answer to one id; a lookup by an id that the
\* catalog lists for no file that is there fails with NotFound.
C32_LookupFindsTheFile ==
    called.op = "GetOfflineItemByID" =>
      LET Content(f) == parseOfflineContent(SubSeq(f, Len(DownloadsDir) + 1, Len(f)))
          EntriesOf(f) ==
              {e \in DOMAIN convertToItems({[path |-> f, content |-> Content(f)]}) : ~e.isFolder}
              \cup DOMAIN GetOfflineEpisodes({f}, Content(f).seriesName)
          owners == {f \in DiscoverOfflineContent(DOMAIN files) :
                       \E e \in EntriesOf(f) : e.id = called.item.id}
      IN IF owners = {} THEN called.err = "NotFound"
         ELSE /\ called.err = "none"
              /\ \A f \in owners :
                   /\ called.item.path = f
                   /\ called.item.content = <<Content(f)>>


\* C33: the final progress report and the watched decision of a session rest
\* on answers of that session's own player: a session whose final queries
\* were answered by the player of another session reports nothing and marks
\* nothing.
C33_FinalAnswersAreOwn ==
    (called.op = "TrackerFinal" /\ (called.err.reportProgress \/ called.err.markWatched))
      => called.item.answeredBy = called.item.session


\* C34: at any time at most one status-poll tick is pending or in flight,
\* however many play commands were given.
C34_OnePollChain == PollsTotal(inbox) <= 1


\* C35: whenever a key that plays, toggles the watched flag, downloads or
\* removes would act, the details record the handler uses is the record of
\* the item under the cursor.
C35_ActsOnCursorItem ==
    \A k \in {"enter", "p", "w", "d", "x"} :
      LET r == Update(m, KeyMsg(k, "nil"))
      IN r.cmd.name \in {"play", "toggleWatchedStatus", "downloadVideo", "removeDownload"}
           => m.currentDetails \in {"nil", m.cursor}


\* C36: for every item, whatever its names, the path BuildVideoPath returns
\* lies strictly inside the downloads directory, and so does every directory
\* the call creates below the downloads directory's own place.
C36_ResolvedInsideRoot ==
    pathProbe.done =>
      /\ Below(CanonicalPath(pathProbe.item), DownloadsDir)
      /\ \A d \in dirs : \/ d = DownloadsDir
                         \/ Below(DownloadsDir, d)
                         \/ Below(d, DownloadsDir)


\* C37: a download that succeeds and a removal change the downloaded status
\* of their own item only: for every other item IsDownloaded answers after
\* the call as before it.
C37_OtherItemsUntouched ==
    [][/\ (dl.pc = "rename" /\ dl'.pc = "done" /\ dl'.result = "ok") =>
            \A other \in StoreItems \ {dl'.item} :
              IsDownloaded(files', other) = IsDownloaded(files, other)
       /\ (called'.n # called.n /\ called'.op = "RemoveDownload") =>
            \A other \in StoreItems \ {called'.item} :
              IsDownloaded(files', other) = IsDownloaded(files, other)]_vars


\* C38: the tracking goroutine of a session with remote content, which has
\* pushed the playback-started event, pushes the playback-stopped event in
\* the completion handling that follows the exit of its player, whatever the
\* final queries answer.
C38_StoppedAfterStarted ==
    (called.op = "TrackerFinal" /\ ~isLocal[called.item.session]
       /\ pc[called.item.session] = "done")
      => called.err.reportStop

====
